---- MODULE Spec2Model ----
(***************************************************************************)
(* Model of the outbound payment-call agent of src/src/agent.py: the       *)
(* CallState record, the six conversation stages with their function       *)
(* tools, GoodbyeAgent.on_enter, hangup_call_with_retry, and the           *)
(* orchestrator entrypoint with create_sip_participant_with_retry.         *)
(*                                                                         *)
(* A Python string is a sequence: of its characters when the code looks    *)
(* into it (amounts, card digits, ZIP codes, confirmation numbers), of one *)
(* word holding the whole text when the code only stores it.  The empty    *)
(* string is the empty sequence.                                           *)
(***************************************************************************)
EXTENDS Integers, Sequences, FiniteSets, TLC

VARIABLES stage, userdata, reply, speech, task, hup, hangup_calls,
          room_deleted, job, dial, event, scenario, objection_calls,
          interaction_cap, last_failure, launcher

vars == <<stage, userdata, reply, speech, task, hup, hangup_calls,
          room_deleted, job, dial, event, scenario, objection_calls,
          interaction_cap, last_failure, launcher>>

\* Python's None: equal to no string
None == <<"None">>

(***************************************************************************)
(* Bounds of the model                                                     *)
(***************************************************************************)
\* cap on CallState.interaction_count (the code never bounds it)
MaxInteractions == 4
\* the same cap for the long calls, in which a payment is retried with few
\* different arguments
MaxLongInteractions == 7
\* cap on objections raised in one call
MaxObjections == 2
\* cap on hang-ups issued by the Greeting tools (the code never bounds them)
MaxHangups == 1

(***************************************************************************)
(* Characters and string helpers                                           *)
(***************************************************************************)
Digit == {"0", "1", "2", "3", "4", "5", "6", "7", "8", "9"}

\* the newline character "\n"
NL == "\n"

IsDigit(c) == c \in Digit

DigitVal(c) ==
  CASE c = "0" -> 0 [] c = "1" -> 1 [] c = "2" -> 2 [] c = "3" -> 3
    [] c = "4" -> 4 [] c = "5" -> 5 [] c = "6" -> 6 [] c = "7" -> 7
    [] c = "8" -> 8 [] c = "9" -> 9

DigitChar(n) ==
  CASE n = 0 -> "0" [] n = 1 -> "1" [] n = 2 -> "2" [] n = 3 -> "3"
    [] n = 4 -> "4" [] n = 5 -> "5" [] n = 6 -> "6" [] n = 7 -> "7"
    [] n = 8 -> "8" [] n = 9 -> "9"

\* every character of s is a decimal digit (also true of the empty string)
AllDigits(s) == \A i \in 1..Len(s) : IsDigit(s[i])

\* str.replace(c, ''): s without the occurrences of character c
RECURSIVE Remove(_, _)
Remove(s, c) ==
  IF s = <<>> THEN <<>>
  ELSE IF Head(s) = c THEN Remove(Tail(s), c)
       ELSE <<Head(s)>> \o Remove(Tail(s), c)

\* int(s) of a string of decimal digits
RECURSIVE IntOf(_)
IntOf(s) ==
  IF s = <<>> THEN 0
  ELSE 10 * IntOf(SubSeq(s, 1, Len(s) - 1)) + DigitVal(s[Len(s)])

\* str(n) of a natural number
RECURSIVE StrOf(_)
StrOf(n) ==
  IF n < 10 THEN <<DigitChar(n)>>
  ELSE StrOf(n \div 10) \o <<DigitChar(n % 10)>>

\* s[-k:], the last k characters of s (all of s when it is shorter)
LastChars(s, k) ==
  IF Len(s) <= k THEN s ELSE SubSeq(s, Len(s) - k + 1, Len(s))

\* the '%0wd' rendering of n: str(n) left-padded with zeros to width w
RECURSIVE ZeroPad(_, _)
ZeroPad(s, w) == IF Len(s) >= w THEN s ELSE ZeroPad(<<"0">> \o s, w)

(***************************************************************************)
(* Validators (agent.py 40-59)                                             *)
(***************************************************************************)
\* re.match(r'^\d{n}$', s): n digits from the start of s, then the end of
\* s; Python's '$' also matches just before one trailing newline.  (\d
\* also matches the decimal digits outside ASCII; the inputs hold none.)
MatchDigits(s, n) ==
  /\ Len(s) >= n
  /\ \A i \in 1..n : IsDigit(s[i])
  /\ \/ Len(s) = n
     \/ Len(s) = n + 1 /\ s[n + 1] = NL

\* a decimal digit outside ASCII (U+0663, category Nd), as one character
ArabicIndicThree == "ARABIC-INDIC DIGIT THREE"

\* what \d matches in a str pattern: every character of category Nd
IsDecimal(c) == IsDigit(c) \/ c = ArabicIndicThree

\* validate_phone_number (agent.py 40-42):
\* re.match(r'^\+[1-9]\d{1,14}$', phone), whose '$' also matches before one
\* newline that ends the string; [1-9] is a range of ASCII, \d is not
validate_phone_number(phone) ==
  LET n == IF Len(phone) > 0 /\ phone[Len(phone)] = NL
           THEN Len(phone) - 1
           ELSE Len(phone)
  IN  /\ n \in 3..16
      /\ phone[1] = "+"
      /\ phone[2] \in Digit \ {"0"}
      /\ \A i \in 3..n : IsDecimal(phone[i])

\* validate_phone_number of the launcher (call.py 20-22): the same pattern,
\* matched with re.match.  The prefix '+', the first digit and the further
\* digits are matched from the start; '$' then needs the end of the string
\* or one newline that ends it
call_validate_phone_number(phone) ==
  /\ Len(phone) >= 3
  /\ phone[1] = "+"
  /\ phone[2] \in Digit \ {"0"}
  /\ \E k \in 1..14 :
        /\ Len(phone) >= 2 + k
        /\ \A i \in 3..(2 + k) : IsDecimal(phone[i])
        /\ \/ Len(phone) = 2 + k
           \/ Len(phone) = 3 + k /\ phone[3 + k] = NL

\* the whitespace float() strips from both ends of its argument
IsSpace(c) == c \in {" ", NL}

RECURSIVE LStrip(_)
LStrip(s) ==
  IF s # <<>> /\ IsSpace(Head(s)) THEN LStrip(Tail(s)) ELSE s

RECURSIVE RStrip(_)
RStrip(s) ==
  IF s # <<>> /\ IsSpace(s[Len(s)])
  THEN RStrip(SubSeq(s, 1, Len(s) - 1)) ELSE s

\* index of the first '.' of s, or 0
RECURSIVE DotAt(_, _)
DotAt(s, i) ==
  IF i > Len(s) THEN 0 ELSE IF s[i] = "." THEN i ELSE DotAt(s, i + 1)

\* the spellings of the values of float() that are no finite number
NonFinite(body) ==
  IF body \in {<<"i", "n", "f">>, <<"i", "n", "f", "i", "n", "i", "t", "y">>}
  THEN "inf"
  ELSE IF body = <<"n", "a", "n">> THEN "nan"
  ELSE "none"

\* float(s) for the decimal notation without exponent: optional
\* surrounding whitespace, optional sign, digits with at most one '.', at
\* least one digit, or inf, infinity or nan in lower case.  ok = FALSE
\* stands for ValueError.  The value is kept exactly: sign, integer part,
\* whether the fraction is non-zero, and whether it is no finite number.
\* The notations float() accepts beyond these (exponents, '_' between
\* digits, digits outside ASCII, upper case) need characters the inputs do
\* not hold, and the inputs are too short for the rounding of a float to
\* show.
ParseFloat(s) ==
  LET t    == RStrip(LStrip(s))
      sgn  == t # <<>> /\ Head(t) \in {"+", "-"}
      body == IF sgn THEN Tail(t) ELSE t
      dot  == DotAt(body, 1)
      ip   == IF dot = 0 THEN body ELSE SubSeq(body, 1, dot - 1)
      fp   == IF dot = 0 THEN <<>> ELSE SubSeq(body, dot + 1, Len(body))
      num  == /\ AllDigits(ip) /\ AllDigits(fp)
              /\ Len(ip) + Len(fp) > 0
  IN  [ok      |-> num \/ NonFinite(body) # "none",
       neg     |-> sgn /\ Head(t) = "-",
       int     |-> IF num THEN IntOf(ip) ELSE 0,
       frac    |-> num /\ \E i \in 1..Len(fp) : fp[i] # "0",
       special |-> NonFinite(body)]

\* the upper limit of a payment, agent.py 47
MaxPayment == 50000

\* mutant: the lower limit is inclusive, 0 <= float_amount
validate_payment_amount_from_zero(amount) ==
  LET f == ParseFloat(Remove(Remove(amount, "$"), ","))
  IN  /\ f.ok
      /\ f.special = "none"
      /\ ~f.neg \/ (f.int = 0 /\ ~f.frac)
      /\ f.int < MaxPayment \/ (f.int = MaxPayment /\ ~f.frac)

\* validate_payment_amount (agent.py 44-49): 0 < float_amount <= 50000,
\* which no nan and no infinity satisfies, and False when float() raises
validate_payment_amount(amount) ==
  LET f == ParseFloat(Remove(Remove(amount, "$"), ","))
  IN  /\ f.ok
      /\ f.special = "none"
      /\ ~f.neg
      /\ f.int > 0 \/ f.frac
      /\ f.int < MaxPayment \/ (f.int = MaxPayment /\ ~f.frac)

(***************************************************************************)
(* sanitize_log_data (agent.py 51-59)                                      *)
(***************************************************************************)
\* a character \w matches: a letter, a decimal digit or '_' (the letters
\* of the inputs are lower-case ASCII)
IsWord(c) ==
  \/ IsDecimal(c)
  \/ c = "_"
  \/ c \in {"a", "b", "c", "d", "r", "s", "n", "x"}

\* \b at position i of s, between s[i-1] and s[i]: exactly one of the two
\* is a word character, the ends of s counting as none
Boundary(s, i) ==
  LET word(k) == k \in 1..Len(s) /\ IsWord(s[k])
  IN  word(i - 1) # word(i)

\* \d{n} at position i of s
DigitsAt(s, i, n) ==
  /\ i + n - 1 <= Len(s)
  /\ \A k \in i..(i + n - 1) : IsDecimal(s[k])

\* [-\s]? at position i of s: the position after it (of \s, the inputs
\* hold ' ' and '\n').  Giving the separator back never helps the match,
\* since a digit must follow
AfterSeparator(s, i) ==
  IF i <= Len(s) /\ s[i] \in {"-", " ", NL} THEN i + 1 ELSE i

\* \b\d{4}[-\s]?\d{4}[-\s]?\d{4}[-\s]?\d{4}\b at position i of s: the
\* position after the match, or 0 when there is none
CardEnd(s, i) ==
  LET j1 == AfterSeparator(s, i + 4)
      j2 == AfterSeparator(s, j1 + 4)
      j3 == AfterSeparator(s, j2 + 4)
  IN  IF /\ Boundary(s, i)
         /\ DigitsAt(s, i, 4) /\ DigitsAt(s, j1, 4)
         /\ DigitsAt(s, j2, 4) /\ DigitsAt(s, j3, 4)
         /\ Boundary(s, j3 + 4)
      THEN j3 + 4 ELSE 0

\* \b\d{3}-\d{2}-\d{4}\b at position i of s: the position after the match,
\* or 0 when there is none
SsnEnd(s, i) ==
  IF /\ Boundary(s, i)
     /\ DigitsAt(s, i, 3)
     /\ i + 3 <= Len(s) /\ s[i + 3] = "-"
     /\ DigitsAt(s, i + 4, 2)
     /\ i + 6 <= Len(s) /\ s[i + 6] = "-"
     /\ DigitsAt(s, i + 7, 4)
     /\ Boundary(s, i + 11)
  THEN i + 11 ELSE 0

\* re.sub of the card pattern on s from position i on: the leftmost
\* matches, which do not overlap, are replaced by '****-****-****-****'
RECURSIVE SubCard(_, _)
SubCard(s, i) ==
  IF i > Len(s) THEN <<>>
  ELSE IF CardEnd(s, i) > 0
  THEN <<"*", "*", "*", "*", "-", "*", "*", "*", "*", "-",
         "*", "*", "*", "*", "-", "*", "*", "*", "*">>
         \o SubCard(s, CardEnd(s, i))
  ELSE <<s[i]>> \o SubCard(s, i + 1)

\* re.sub of the SSN pattern on s from position i on, with '***-**-****'
RECURSIVE SubSsn(_, _)
SubSsn(s, i) ==
  IF i > Len(s) THEN <<>>
  ELSE IF SsnEnd(s, i) > 0
  THEN <<"*", "*", "*", "-", "*", "*", "-", "*", "*", "*", "*">>
         \o SubSsn(s, SsnEnd(s, i))
  ELSE <<s[i]>> \o SubSsn(s, i + 1)

\* sanitize_log_data: the two patterns in their order
sanitize_log_data(data) == SubSsn(SubCard(data, 1), 1)

(***************************************************************************)
(* The confirmation number (agent.py 375)                                  *)
(***************************************************************************)
\* time.strftime('%Y%m%d') of the local time `secs` seconds after the
\* epoch: the proleptic Gregorian date of day secs div 86400
StrfYmd(secs) ==
  LET z   == (secs \div 86400) + 719468
      era == z \div 146097
      doe == z - era * 146097
      yoe == (doe - doe \div 1460 + doe \div 36524 - doe \div 146096) \div 365
      doy == doe - (365 * yoe + yoe \div 4 - yoe \div 100)
      mp  == (5 * doy + 2) \div 153
      d   == doy - (153 * mp + 2) \div 5 + 1
      m   == IF mp < 10 THEN mp + 3 ELSE mp - 9
      y   == yoe + era * 400 + (IF m <= 2 THEN 1 ELSE 0)
  IN  ZeroPad(StrOf(y), 4) \o ZeroPad(StrOf(m), 2) \o ZeroPad(StrOf(d), 2)

\* mutant: the last four digits taken as a number, int(time.time()) % 10000,
\* which drops leading zeros
ConfirmationNumber_Unpadded(t1, t2) ==
  <<"S", "C">> \o StrfYmd(t1) \o StrOf(t2 % 10000)

\* f"SC{time.strftime('%Y%m%d')}{str(int(time.time()))[-4:]}", with the
\* local time t1 read by strftime and the epoch seconds t2 read by time()
ConfirmationNumber(t1, t2) ==
  <<"S", "C">> \o StrfYmd(t1) \o LastChars(StrOf(t2), 4)

(***************************************************************************)
(* Inputs: the arguments the language-model layer may pass to the tools    *)
(* and the values the clock may show                                       *)
(***************************************************************************)
AmountInputs ==
  { <<"$", "2", "0", "0">>, <<"7", "5", ".", "5", "0">>,
    <<"$", "0">>, <<"a", "b", "c">>,
    <<"5", "0", "0", "0", "0", ".", "0", "1">> }

DueDateInputs == {<<"2024-02-01">>}

BalanceInputs == {<<>>}

LastFourInputs ==
  { <<"1", "2", "3", "4">>, <<"1", "2", "a", "4">>,
    <<"1", "2", "3", "4", "5">>, <<"1", "2", "3", "4", NL>> }

ZipInputs ==
  { <<"9", "0", "2", "1", "0">>, <<"9", "0", "2", "1">>,
    <<"9", "0", "2", "1", "0", NL>> }

NameInputs == {<<"Ann">>}

MethodInputs == {<<"debit card">>, <<"bank transfer">>}

ObjectionInputs == {<<"no money">>, <<"too late">>}

ReasonInputs == {<<"card declined">>}

QuestionInputs == {<<"late fees">>}

SolutionInputs == {<<"payment_plan">>, <<"something else">>}

PreferredTimeInputs == {<<>>, <<"tomorrow">>}

\* seconds since the epoch: 2023-11-14 22:13:27 and 2024-01-15 23:59:59 UTC
ClockInputs == {1700000007, 1705363199}

\* the time at which the call starts
StartInputs == {1700000007}

\* offsets of the local time zone from UTC, in seconds (UTC+5:30)
ZoneInputs == {19800}

PhoneInputs == {<<"+", "1", "4", "1", "5", "5", "5", "5", "2", "6", "7", "1">>}

\* ctx.job.metadata: text that is no JSON, no text at all, JSON that is no
\* object, or a JSON object without a phone_number, with an empty one, with
\* one that is no E.164 number, with a valid one
MetadataInputs ==
  {[json |-> j, phone_number |-> None] : j \in {"invalid", "empty", "array"}}
    \cup {[json |-> "object", phone_number |-> p] :
            p \in {None, <<>>, <<"4", "1", "5">>} \cup PhoneInputs}

\* the time at which the participant has joined the room
AnswerInputs == {1700000019}

(***************************************************************************)
(* State                                                                   *)
(***************************************************************************)
Stages == {"Greeting", "PaymentInquiry", "QuestionHandler",
           "ObjectionHandler", "PaymentProcessing", "Goodbye"}

\* mutant: the new CallState is already marked as interested
NewCallState_Interested(phone, t) ==
  [customer_name       |-> None,
   phone_number        |-> phone,
   is_interested       |-> TRUE,
   payment_amount      |-> None,
   payment_method      |-> None,
   last_four_digits    |-> None,
   billing_zip         |-> None,
   due_date            |-> None,
   current_balance     |-> None,
   objections          |-> <<>>,
   has_overdue_balance |-> FALSE,
   call_start_time     |-> t,
   interaction_count   |-> 0,
   payment_confirmed   |-> FALSE,
   confirmation_number |-> None]

\* CallState(phone_number=phone), agent.py 78-94 and 510
NewCallState(phone, t) ==
  [customer_name       |-> None,
   phone_number        |-> phone,
   is_interested       |-> FALSE,
   payment_amount      |-> None,
   payment_method      |-> None,
   last_four_digits    |-> None,
   billing_zip         |-> None,
   due_date            |-> None,
   current_balance     |-> None,
   objections          |-> <<>>,
   has_overdue_balance |-> FALSE,
   call_start_time     |-> t,
   interaction_count   |-> 0,
   payment_confirmed   |-> FALSE,
   confirmation_number |-> None]

\* no payment has failed in this call
NoFailure == [failed |-> FALSE]

\* the launcher (call.py) is not running
NoLauncher == [pc |-> "none"]

\* no CallState yet: the session is not created
NoCallState == [created |-> FALSE]

\* the coroutines that suspend: the on_enter hooks and the two Greeting
\* tools that hang up
NoTask == [name |-> "none", pc |-> "none"]

\* entrypoint(ctx) is about to run on a job with this metadata (agent.py
\* 477): its position, its local variables, what it has done to ctx, the
\* state of the session_started task and the completion metrics it logged
NewJob(metadata) ==
  [pc                   |-> "start",
   metadata             |-> metadata,
   phone_number         |-> None,
   connected            |-> FALSE,
   vad                  |-> FALSE,
   sessions             |-> 0,
   session_started      |-> "none",
   participant_identity |-> None,
   shutdowns            |-> 0,
   metrics              |-> <<>>]

\* the "Call completed" record of agent.py 532-533
Metrics(ud, now) ==
  [duration     |-> now - ud.call_start_time,
   interactions |-> ud.interaction_count,
   payment      |-> ud.payment_confirmed]

\* entrypoint has run to its end on a job with a valid phone number: the
\* participant has joined and the metrics are logged (agent.py 530-533)
CompletedJob(phone, ud, now) ==
  [pc                   |-> "completed",
   metadata             |-> [json |-> "object", phone_number |-> phone],
   phone_number         |-> phone,
   connected            |-> TRUE,
   vad                  |-> TRUE,
   sessions             |-> 1,
   session_started      |-> "done",
   participant_identity |-> phone,
   shutdowns            |-> 0,
   metrics              |-> <<Metrics(ud, now)>>]

\* create_sip_participant_with_retry is not running
DialIdle == [pc |-> "idle", attempt |-> 0, tries |-> 0, sleeps |-> <<>>]

\* hangup_call_with_retry is not running
HupIdle == [pc |-> "idle", attempt |-> 0, tries |-> 0, sleeps |-> <<>>,
            failed |-> FALSE]

HangupCallers == {"GoodbyeAgent.on_enter", "detected_answering_machine",
                  "customer_requests_callback"}

\* the session is started at GreetingAgent with a fresh CallState
\* (agent.py 505-521) and its on_enter hook is about to run; the customer
\* has answered and entrypoint has run to its end
Init ==
  /\ stage = "Greeting"
  /\ \E p \in PhoneInputs, t \in StartInputs, now \in AnswerInputs :
        /\ userdata = NewCallState(p, t)
        /\ job = CompletedJob(p, userdata, now)
  /\ dial = DialIdle
  /\ objection_calls = 0
  /\ interaction_cap = MaxInteractions
  /\ last_failure = NoFailure
  /\ launcher = NoLauncher
  /\ reply = "none"
  /\ speech = "none"
  /\ task = [name |-> "GreetingAgent.on_enter", pc |-> "reply"]
  /\ hup = HupIdle
  /\ hangup_calls = [c \in HangupCallers |-> 0]
  /\ room_deleted = FALSE
  /\ event = [tool |-> "start", args |-> <<>>]
  /\ scenario = [on |-> TRUE, calls |-> <<>>]

\* the customer is on the line: the participant has joined the room, which
\* is when entrypoint runs to its end without a further suspension
OnTheLine == job.pc = "completed"

\* the customer is on the line and no coroutine is suspended: the next tool
\* call may run
Idle == task = NoTask /\ OnTheLine

\* a Python string is truthy unless it is None or empty
Truthy(x) == x # None /\ x # <<>>

(***************************************************************************)
(* History: the last step taken, and the progress of the call along the    *)
(* end-to-end payment scenario (proceed_to_payment_inquiry,                *)
(* customer_wants_to_pay with a valid amount, verify_customer_info with    *)
(* four and five digits, process_payment)                                  *)
(***************************************************************************)
ExactDigits(s, n) == Len(s) = n /\ AllDigits(s)

\* `valid` tells whether the amount of a customer_wants_to_pay call is valid
ScenarioNext(tool, args, valid) ==
  LET n  == Len(scenario.calls)
      go == /\ scenario.on
            /\ \/ n = 0 /\ tool = "proceed_to_payment_inquiry"
               \/ n = 1 /\ tool = "customer_wants_to_pay" /\ valid
               \/ n = 2 /\ tool = "verify_customer_info"
                        /\ ExactDigits(args[1], 4) /\ ExactDigits(args[2], 5)
               \/ n = 3 /\ tool = "process_payment"
  IN  IF go THEN [on |-> TRUE, calls |-> Append(scenario.calls, args)]
      ELSE [on |-> FALSE, calls |-> <<>>]

\* a tool call is recorded, and with a payment_failed the card details the
\* CallState holds at that time; no tool touches the orchestrator
CalledWith(tool, args, valid) ==
  /\ event' = [tool |-> tool, args |-> args]
  /\ scenario' = ScenarioNext(tool, args, valid)
  /\ objection_calls' = IF tool = "customer_has_objection"
                        THEN objection_calls + 1
                        ELSE objection_calls
  /\ last_failure' = IF tool = "payment_failed"
                     THEN [failed           |-> TRUE,
                           last_four_digits |-> userdata.last_four_digits,
                           billing_zip      |-> userdata.billing_zip]
                     ELSE last_failure
  /\ UNCHANGED <<job, dial, interaction_cap, launcher>>

Called(tool, args) == CalledWith(tool, args, TRUE)

\* a step of a hook or of the hang-up loop is recorded; neither touches the
\* orchestrator
Stepped(name) ==
  /\ event' = [tool |-> name, args |-> <<>>]
  /\ UNCHANGED <<scenario, objection_calls, job, dial, interaction_cap,
                 last_failure, launcher>>

(***************************************************************************)
(* Building blocks of the handlers                                         *)
(***************************************************************************)
\* session.generate_reply(instructions=...): the reply becomes the current
\* speech of the session
GenerateReply(instructions) ==
  /\ reply' = instructions
  /\ speech' = "playing"

\* if session.current_speech: await current_speech.wait_for_playout()
\* the speech has ended by itself, or its end is awaited: either way no
\* speech is playing afterwards
WaitForPlayout == speech' = "none"

\* context.userdata.interaction_count += 1
Interact(ud) == [ud EXCEPT !.interaction_count = @ + 1]

\* interaction_cap is the cap of the call at hand; no step changes it
CanInteract == userdata.interaction_count < interaction_cap

\* the on_enter hook of the agent a tool returns: only GoodbyeAgent (and
\* GreetingAgent, which no tool returns) defines one
OnEnterOf(agent) ==
  IF agent = "Goodbye"
  THEN [name |-> "GoodbyeAgent.on_enter", pc |-> "reply"]
  ELSE NoTask

\* return message, Agent(...): the message is spoken and the returned agent
\* becomes the active stage, which invokes its on_enter hook
Handoff(message, agent) ==
  /\ reply' = message
  /\ stage' = agent
  /\ task' = OnEnterOf(agent)
  /\ UNCHANGED <<speech, hup, hangup_calls, room_deleted>>

\* return None after a corrective generate_reply: the stage stays
Stay(instructions) ==
  /\ GenerateReply(instructions)
  /\ UNCHANGED <<stage, task, hup, hangup_calls, room_deleted>>

(***************************************************************************)
(* hangup_call_with_retry (agent.py 61-76)                                 *)
(***************************************************************************)
\* the default of max_retries, agent.py 61
max_retries == 3

\* mutant: a fixed backoff of one second
Pow2_Fixed(n) == 1

RECURSIVE Pow2(_)
Pow2(n) == IF n = 0 THEN 1 ELSE 2 * Pow2(n - 1)

\* mutant: the last attempt is taken for one that has a retry left
RetryLeft_OffByOne(attempt, retries) == attempt < retries

\* if attempt < max_retries - 1 (agent.py 73 and 468): a retry is left
RetryLeft(attempt, retries) == attempt < retries - 1

\* for attempt in range(max_retries) (agent.py 62 and 449): the loop has a
\* pass for this attempt
InRange(attempt, retries) == attempt < retries

\* await hangup_call_with_retry(): the loop starts with attempt 0
CallHangup(caller) ==
  /\ hup' = [HupIdle EXCEPT !.pc = "attempt"]
  /\ hangup_calls' = [hangup_calls EXCEPT ![caller] = @ + 1]

\* hangup_call_with_retry returns to the coroutine that awaited it:
\* on_enter is finished, a Greeting tool returns None
AfterHangup ==
  IF task.name = "GoodbyeAgent.on_enter"
  THEN [task EXCEPT !.pc = "done"]
  ELSE NoTask

\* mutant: the last failure is raised to the coroutine that awaited the
\* hang-up, which then never completes
hangup_attempt_raises(ok) ==
  /\ hup.pc = "attempt"
  /\ IF ok
     THEN /\ room_deleted' = TRUE
          /\ hup' = [hup EXCEPT !.pc = "idle", !.tries = @ + 1]
          /\ task' = AfterHangup
     ELSE IF RetryLeft(hup.attempt, max_retries)
     THEN /\ hup' = [hup EXCEPT !.pc = "sleep", !.tries = @ + 1,
                                !.sleeps = Append(@, Pow2(hup.attempt))]
          /\ UNCHANGED <<room_deleted, task>>
     ELSE /\ hup' = [hup EXCEPT !.pc = "idle", !.tries = @ + 1]
          /\ task' = [task EXCEPT !.pc = "raised"]
          /\ UNCHANGED room_deleted
  /\ Stepped("hangup_call_with_retry")
  /\ UNCHANGED <<stage, userdata, reply, speech, hangup_calls>>

\* one pass of the loop body: delete_room succeeds (return), or fails and a
\* retry is left (sleep 2 ** attempt), or fails for the last time (log)
hangup_attempt(ok) ==
  /\ hup.pc = "attempt"
  /\ IF ok
     THEN /\ room_deleted' = TRUE
          /\ hup' = [hup EXCEPT !.pc = "idle", !.tries = @ + 1]
          /\ task' = AfterHangup
     ELSE IF RetryLeft(hup.attempt, max_retries)
     THEN /\ hup' = [hup EXCEPT !.pc = "sleep", !.tries = @ + 1,
                                !.sleeps = Append(@, Pow2(hup.attempt))]
          /\ UNCHANGED <<room_deleted, task>>
     ELSE /\ hup' = [hup EXCEPT !.pc = "idle", !.tries = @ + 1,
                                !.failed = TRUE]
          /\ task' = AfterHangup
          /\ UNCHANGED room_deleted
  /\ Stepped("hangup_call_with_retry")
  /\ UNCHANGED <<stage, userdata, reply, speech, hangup_calls>>

\* the sleep ends and the for loop takes the next attempt, or ends when
\* the range is exhausted
hangup_sleep ==
  /\ hup.pc = "sleep"
  /\ IF InRange(hup.attempt + 1, max_retries)
     THEN /\ hup' = [hup EXCEPT !.pc = "attempt", !.attempt = @ + 1]
          /\ UNCHANGED task
     ELSE /\ hup' = [hup EXCEPT !.pc = "idle"]
          /\ task' = AfterHangup
  /\ Stepped("hangup_call_with_retry")
  /\ UNCHANGED <<stage, userdata, reply, speech, hangup_calls,
                 room_deleted>>

(***************************************************************************)
(* GreetingAgent (agent.py 96-157)                                         *)
(***************************************************************************)
GreetingAgent_on_enter ==
  /\ task = [name |-> "GreetingAgent.on_enter", pc |-> "reply"]
  /\ GenerateReply("greet")
  /\ task' = NoTask
  /\ Stepped("GreetingAgent.on_enter")
  /\ UNCHANGED <<stage, userdata, hup, hangup_calls, room_deleted>>

\* hang-ups the Greeting tools have issued so far
GreetingHangups ==
  hangup_calls["detected_answering_machine"]
    + hangup_calls["customer_requests_callback"]

\* detected_answering_machine up to its first suspension: the message.
\* The tool returns no agent, so GreetingAgent stays the active stage, and
\* nothing in the code keeps its tools from being called after the hang-up.
detected_answering_machine ==
  /\ stage = "Greeting" /\ Idle
  /\ GreetingHangups < MaxHangups
  /\ GenerateReply("leave_message")
  /\ task' = [name |-> "detected_answering_machine", pc |-> "playout"]
  /\ Called("detected_answering_machine", <<>>)
  /\ UNCHANGED <<stage, userdata, hup, hangup_calls, room_deleted>>

customer_confirmed_identity(customer_name) ==
  /\ stage = "Greeting" /\ Idle
  /\ CanInteract
  /\ userdata' = Interact([userdata EXCEPT !.customer_name = customer_name])
  /\ Called("customer_confirmed_identity", <<customer_name>>)
  /\ UNCHANGED <<stage, reply, speech, task, hup, hangup_calls,
                 room_deleted>>

proceed_to_payment_inquiry ==
  /\ stage = "Greeting" /\ Idle
  /\ CanInteract
  /\ userdata' = Interact(userdata)
  /\ Handoff("let_me_help", "PaymentInquiry")
  /\ Called("proceed_to_payment_inquiry", <<>>)

\* customer_requests_callback up to its first suspension: the reply
customer_requests_callback(preferred_time) ==
  /\ stage = "Greeting" /\ Idle
  /\ GreetingHangups < MaxHangups
  /\ GenerateReply("acknowledge_callback")
  /\ task' = [name |-> "customer_requests_callback", pc |-> "playout"]
  /\ Called("customer_requests_callback", <<preferred_time>>)
  /\ UNCHANGED <<stage, userdata, hup, hangup_calls, room_deleted>>

\* the rest of detected_answering_machine and customer_requests_callback:
\* wait for the playout if a speech is current, then hang up
greeting_tool_hangup ==
  /\ task.name \in {"detected_answering_machine",
                    "customer_requests_callback"}
  /\ task.pc = "playout"
  /\ WaitForPlayout
  /\ task' = [task EXCEPT !.pc = "hangup"]
  /\ CallHangup(task.name)
  /\ Stepped(task.name)
  /\ UNCHANGED <<stage, userdata, reply, room_deleted>>

GreetingAgent_end_call ==
  /\ stage = "Greeting" /\ Idle
  /\ Handoff("thank_you_for_your_time", "Goodbye")
  /\ Called("end_call", <<>>)
  /\ UNCHANGED userdata

(***************************************************************************)
(* GoodbyeAgent (agent.py 411-443): no tools, the on_enter hook only       *)
(***************************************************************************)
\* mutant: the goodbye counts as an interaction
GoodbyeAgent_on_enter_counted ==
  /\ task = [name |-> "GoodbyeAgent.on_enter", pc |-> "reply"]
  /\ GenerateReply("goodbye")
  /\ task' = [task EXCEPT !.pc = "playout"]
  /\ userdata' = Interact(userdata)
  /\ Stepped("GoodbyeAgent.on_enter")
  /\ UNCHANGED <<stage, hup, hangup_calls, room_deleted>>

GoodbyeAgent_on_enter ==
  /\ task = [name |-> "GoodbyeAgent.on_enter", pc |-> "reply"]
  /\ GenerateReply("goodbye")
  /\ task' = [task EXCEPT !.pc = "playout"]
  /\ Stepped("GoodbyeAgent.on_enter")
  /\ UNCHANGED <<stage, userdata, hup, hangup_calls, room_deleted>>

\* mutant: on_enter hangs up as soon as the reply is generated, without
\* waiting for its playout and without the grace delay
goodbye_wait_for_playout_skipped ==
  /\ task = [name |-> "GoodbyeAgent.on_enter", pc |-> "playout"]
  /\ task' = [task EXCEPT !.pc = "hangup"]
  /\ CallHangup("GoodbyeAgent.on_enter")
  /\ Stepped("GoodbyeAgent.on_enter")
  /\ UNCHANGED <<stage, userdata, reply, speech, room_deleted>>

goodbye_wait_for_playout ==
  /\ task = [name |-> "GoodbyeAgent.on_enter", pc |-> "playout"]
  /\ WaitForPlayout
  /\ task' = [task EXCEPT !.pc = "sleep"]
  /\ Stepped("GoodbyeAgent.on_enter")
  /\ UNCHANGED <<stage, userdata, reply, hup, hangup_calls, room_deleted>>

\* mutant: on_enter ends after the grace delay without hanging up
goodbye_hangup_skipped ==
  /\ task = [name |-> "GoodbyeAgent.on_enter", pc |-> "sleep"]
  /\ task' = [task EXCEPT !.pc = "done"]
  /\ Stepped("GoodbyeAgent.on_enter")
  /\ UNCHANGED <<stage, userdata, reply, speech, hup, hangup_calls,
                 room_deleted>>

\* asyncio.sleep(2) is over: hangup_call_with_retry is called
goodbye_hangup ==
  /\ task = [name |-> "GoodbyeAgent.on_enter", pc |-> "sleep"]
  /\ task' = [task EXCEPT !.pc = "hangup"]
  /\ CallHangup("GoodbyeAgent.on_enter")
  /\ Stepped("GoodbyeAgent.on_enter")
  /\ UNCHANGED <<stage, userdata, reply, speech, room_deleted>>

(***************************************************************************)
(* PaymentInquiryAgent (agent.py 160-228)                                  *)
(***************************************************************************)
\* mutant: the amount is not stored
WantsToPay_ForgetsAmount(ud, payment_amount, due_date, current_balance) ==
  Interact([ud EXCEPT !.is_interested = TRUE,
                      !.due_date = due_date,
                      !.current_balance = current_balance])

\* mutant: agreeing to pay already marks the payment as confirmed
WantsToPay_Confirms(ud, payment_amount, due_date, current_balance) ==
  Interact([ud EXCEPT !.is_interested = TRUE,
                      !.payment_confirmed = TRUE,
                      !.payment_amount = payment_amount,
                      !.due_date = due_date,
                      !.current_balance = current_balance])

\* mutant: agreeing to pay starts the verification over
WantsToPay_Unverified(ud, payment_amount, due_date, current_balance) ==
  Interact([ud EXCEPT !.is_interested = TRUE,
                      !.payment_amount = payment_amount,
                      !.due_date = due_date,
                      !.current_balance = current_balance,
                      !.last_four_digits = None,
                      !.billing_zip = None])

\* mutant: the new amount is stored without the interest of the customer
\* having been recorded
WantsToPay_NotInterested(ud, payment_amount, due_date, current_balance) ==
  Interact([ud EXCEPT !.payment_amount = payment_amount,
                      !.due_date = due_date,
                      !.current_balance = current_balance])

\* the assignments of customer_wants_to_pay, agent.py 193-197
WantsToPay(ud, payment_amount, due_date, current_balance) ==
  Interact([ud EXCEPT !.is_interested = TRUE,
                      !.payment_amount = payment_amount,
                      !.due_date = due_date,
                      !.current_balance = current_balance])

customer_wants_to_pay(payment_amount, due_date, current_balance) ==
  /\ stage = "PaymentInquiry" /\ Idle
  /\ IF ~validate_payment_amount(payment_amount)
     THEN /\ Stay("confirm_the_amount")
          /\ UNCHANGED userdata
     ELSE /\ CanInteract
          /\ userdata' = WantsToPay(userdata, payment_amount, due_date,
                                    current_balance)
          /\ Handoff("process_securely", "PaymentProcessing")
  /\ CalledWith("customer_wants_to_pay",
                <<payment_amount, due_date, current_balance>>,
                validate_payment_amount(payment_amount))

customer_has_question(question_type) ==
  /\ stage = "PaymentInquiry" /\ Idle
  /\ CanInteract
  /\ userdata' = Interact(userdata)
  /\ Handoff("happy_to_help", "QuestionHandler")
  /\ Called("customer_has_question", <<question_type>>)

customer_not_interested(reason) ==
  /\ stage = "PaymentInquiry" /\ Idle
  /\ CanInteract
  /\ userdata' = Interact(userdata)
  /\ Handoff("i_understand", "Goodbye")
  /\ Called("customer_not_interested", <<reason>>)

\* mutant: the objection is put in front of the list
customer_has_objection_prepends(objection) ==
  /\ stage = "PaymentInquiry" /\ Idle
  /\ CanInteract
  /\ Len(userdata.objections) < MaxObjections
  /\ userdata' = Interact([userdata EXCEPT
                             !.objections = <<objection>> \o @])
  /\ Handoff("address_concern", "ObjectionHandler")
  /\ Called("customer_has_objection", <<objection>>)

customer_has_objection(objection) ==
  /\ stage = "PaymentInquiry" /\ Idle
  /\ CanInteract
  /\ Len(userdata.objections) < MaxObjections
  /\ userdata' = Interact([userdata EXCEPT
                             !.objections = Append(@, objection)])
  /\ Handoff("address_concern", "ObjectionHandler")
  /\ Called("customer_has_objection", <<objection>>)

customer_needs_balance_info ==
  /\ stage = "PaymentInquiry" /\ Idle
  /\ CanInteract
  /\ userdata' = Interact(userdata)
  /\ Handoff("balance_information", "QuestionHandler")
  /\ Called("customer_needs_balance_info", <<>>)

\* mutant: end_call of PaymentInquiry counts as an interaction
PaymentInquiryAgent_end_call_counted ==
  /\ stage = "PaymentInquiry" /\ Idle
  /\ CanInteract
  /\ Handoff("no_problem", "Goodbye")
  /\ Called("end_call", <<>>)
  /\ userdata' = Interact(userdata)

PaymentInquiryAgent_end_call ==
  /\ stage = "PaymentInquiry" /\ Idle
  /\ Handoff("no_problem", "Goodbye")
  /\ Called("end_call", <<>>)
  /\ UNCHANGED userdata

(***************************************************************************)
(* QuestionHandlerAgent (agent.py 231-268)                                 *)
(***************************************************************************)
question_answered_proceed_to_payment ==
  /\ stage = "QuestionHandler" /\ Idle
  /\ CanInteract
  /\ userdata' = Interact(userdata)
  /\ Handoff("hope_that_helps", "PaymentInquiry")
  /\ Called("question_answered_proceed_to_payment", <<>>)

customer_has_more_questions ==
  /\ stage = "QuestionHandler" /\ Idle
  /\ CanInteract
  /\ userdata' = Interact(userdata)
  /\ Stay("other_questions")
  /\ Called("customer_has_more_questions", <<>>)

\* mutant: end_call after the questions returns PaymentInquiryAgent
QuestionHandlerAgent_end_call_to_inquiry ==
  /\ stage = "QuestionHandler" /\ Idle
  /\ Handoff("glad_i_could_help", "PaymentInquiry")
  /\ Called("end_call", <<>>)
  /\ UNCHANGED userdata

QuestionHandlerAgent_end_call ==
  /\ stage = "QuestionHandler" /\ Idle
  /\ Handoff("glad_i_could_help", "Goodbye")
  /\ Called("end_call", <<>>)
  /\ UNCHANGED userdata

(***************************************************************************)
(* ObjectionHandlerAgent (agent.py 271-316)                                *)
(***************************************************************************)
\* mutant: the resolved objection leads straight to PaymentProcessingAgent
objection_resolved_to_processing ==
  /\ stage = "ObjectionHandler" /\ Idle
  /\ CanInteract
  /\ userdata' = Interact(userdata)
  /\ Handoff("glad_we_worked_that_out", "PaymentProcessing")
  /\ Called("objection_resolved", <<>>)

objection_resolved ==
  /\ stage = "ObjectionHandler" /\ Idle
  /\ CanInteract
  /\ userdata' = Interact(userdata)
  /\ Handoff("glad_we_worked_that_out", "PaymentInquiry")
  /\ Called("objection_resolved", <<>>)

\* solutions.get(solution_type, default)
SolutionMessage(solution_type) ==
  IF solution_type \in {<<"online_payment">>, <<"callback">>,
                        <<"payment_plan">>, <<"email_info">>}
  THEN solution_type[1]
  ELSE "other_options"

offer_alternative_solution(solution_type) ==
  /\ stage = "ObjectionHandler" /\ Idle
  /\ CanInteract
  /\ userdata' = Interact(userdata)
  /\ Handoff(SolutionMessage(solution_type), "PaymentInquiry")
  /\ Called("offer_alternative_solution", <<solution_type>>)

ObjectionHandlerAgent_end_call ==
  /\ stage = "ObjectionHandler" /\ Idle
  /\ Handoff("understand_completely", "Goodbye")
  /\ Called("end_call", <<>>)
  /\ UNCHANGED userdata

(***************************************************************************)
(* PaymentProcessingAgent (agent.py 319-408)                               *)
(***************************************************************************)
\* the assignments of verify_customer_info, agent.py 362-364
Verified(ud, last_four_digits, billing_zip) ==
  Interact([ud EXCEPT !.last_four_digits = last_four_digits,
                      !.billing_zip = billing_zip])

verify_customer_info(last_four_digits, billing_zip) ==
  /\ stage = "PaymentProcessing" /\ Idle
  /\ IF ~MatchDigits(last_four_digits, 4)
     THEN /\ Stay("need_four_digits")
          /\ UNCHANGED userdata
     ELSE IF ~MatchDigits(billing_zip, 5)
     THEN /\ Stay("need_five_digit_zip")
          /\ UNCHANGED userdata
     ELSE /\ CanInteract
          /\ userdata' = Verified(userdata, last_four_digits, billing_zip)
          /\ UNCHANGED <<stage, reply, speech, task, hup, hangup_calls,
                         room_deleted>>
  /\ Called("verify_customer_info", <<last_four_digits, billing_zip>>)

\* the assignments of process_payment, agent.py 376-379
Paid(ud, payment_method, confirmation_number) ==
  Interact([ud EXCEPT !.payment_method = payment_method,
                      !.payment_confirmed = TRUE,
                      !.confirmation_number = confirmation_number])

\* the guard of process_payment, agent.py 369
NotVerified(ud) ==
  ~Truthy(ud.last_four_digits) \/ ~Truthy(ud.billing_zip)

\* t1 is the local time strftime reads, t2 the time time.time() reads next
process_payment(payment_method, t1, t2) ==
  /\ stage = "PaymentProcessing" /\ Idle
  /\ IF NotVerified(userdata)
     THEN /\ Stay("still_need_to_verify")
          /\ UNCHANGED userdata
     ELSE /\ CanInteract
          /\ userdata' = Paid(userdata, payment_method,
                              ConfirmationNumber(t1, t2))
          /\ Handoff("payment_processed", "Goodbye")
  /\ Called("process_payment", <<payment_method>>)

\* mutant: the failed payment returns PaymentInquiryAgent
payment_failed_to_inquiry(reason) ==
  /\ stage = "PaymentProcessing" /\ Idle
  /\ CanInteract
  /\ userdata' = Interact(userdata)
  /\ Handoff("alternative_method", "PaymentInquiry")
  /\ Called("payment_failed", <<reason>>)

\* mutant: the failed payment returns GoodbyeAgent
payment_failed_to_goodbye(reason) ==
  /\ stage = "PaymentProcessing" /\ Idle
  /\ CanInteract
  /\ userdata' = Interact(userdata)
  /\ Handoff("alternative_method", "Goodbye")
  /\ Called("payment_failed", <<reason>>)

payment_failed(reason) ==
  /\ stage = "PaymentProcessing" /\ Idle
  /\ CanInteract
  /\ userdata' = Interact(userdata)
  /\ Handoff("alternative_method", "ObjectionHandler")
  /\ Called("payment_failed", <<reason>>)

\* the assignments of customer_wants_different_amount, agent.py 398-399
AmountChanged(ud, new_amount) ==
  Interact([ud EXCEPT !.payment_amount = new_amount])

customer_wants_different_amount(new_amount) ==
  /\ stage = "PaymentProcessing" /\ Idle
  /\ IF ~validate_payment_amount(new_amount)
     THEN /\ Stay("clarify_the_amount")
          /\ UNCHANGED userdata
     ELSE /\ CanInteract
          /\ userdata' = AmountChanged(userdata, new_amount)
          /\ Stay("amount_updated")
  /\ Called("customer_wants_different_amount", <<new_amount>>)

PaymentProcessingAgent_end_call ==
  /\ stage = "PaymentProcessing" /\ Idle
  /\ Handoff("call_back_when_ready", "Goodbye")
  /\ Called("end_call", <<>>)
  /\ UNCHANGED userdata

(***************************************************************************)
(* create_sip_participant_with_retry (agent.py 446-474) and entrypoint     *)
(* (agent.py 477-537).  The tools of the session are called once the       *)
(* customer is on the line; its hooks run as soon as it is started.        *)
(***************************************************************************)
\* the default of max_retries of create_sip_participant_with_retry
dial_max_retries == 3

session_vars ==
  <<stage, userdata, reply, speech, task, hup, hangup_calls, room_deleted>>

\* a step of entrypoint is recorded with its outcome; it calls no tool
Awaited(step, outcome) ==
  /\ event' = [tool |-> step, args |-> <<outcome>>]
  /\ UNCHANGED <<scenario, objection_calls, interaction_cap, last_failure,
                 launcher>>

\* mutant: the handler ends entrypoint without ctx.shutdown()
Shutdown_Skipped(j) == [j EXCEPT !.pc = "returned"]

\* ctx.shutdown() and the end of entrypoint: after except api.TwirpError
\* (agent.py 525-527) and in except Exception (agent.py 535-537)
Shutdown(j) == [j EXCEPT !.pc = "shutdown", !.shutdowns = @ + 1]

\* dial_info.get("phone_number") on the parsed metadata, agent.py 485
PhoneOf(metadata) ==
  IF metadata.json = "object" THEN metadata.phone_number ELSE None

\* what agent.py 479-492 make of the metadata: json.loads raises
\* JSONDecodeError, .get raises AttributeError on a JSON value that is no
\* object, the phone number is missing or empty, it is invalid, or all is well
MetadataCheck(metadata) ==
  IF metadata.json = "invalid" THEN "JSONDecodeError"
  ELSE IF metadata.json = "array" THEN "AttributeError"
  ELSE IF ~Truthy(PhoneOf(metadata)) THEN "phone_number not found"
  ELSE IF ~validate_phone_number(PhoneOf(metadata)) THEN "invalid phone number"
  ELSE "ok"

\* entrypoint up to its first suspension, await ctx.connect(), or to its
\* early return
entrypoint_metadata ==
  /\ job.pc = "start"
  /\ LET check == MetadataCheck(job.metadata)
     IN  /\ job' = IF check = "JSONDecodeError"
                   THEN [job EXCEPT !.pc = "returned"]
                   ELSE IF check = "AttributeError"
                   THEN Shutdown(job)
                   ELSE [job EXCEPT
                           !.phone_number = PhoneOf(job.metadata),
                           !.pc = IF check = "ok" THEN "connect"
                                  ELSE "returned"]
         /\ Awaited("entrypoint", check)
  /\ UNCHANGED dial
  /\ UNCHANGED session_vars

\* await ctx.connect(), agent.py 496
ctx_connect(ok) ==
  /\ job.pc = "connect"
  /\ job' = IF ok THEN [job EXCEPT !.pc = "vad", !.connected = TRUE]
            ELSE Shutdown(job)
  /\ Awaited("ctx.connect", IF ok THEN "ok" ELSE "Exception")
  /\ UNCHANGED dial
  /\ UNCHANGED session_vars

\* mutant: a failure of the VAD is logged and entrypoint goes on
silero_VAD_load_ignored(ok) ==
  /\ job.pc = "vad"
  /\ job' = [job EXCEPT !.pc = "session", !.vad = ok]
  /\ Awaited("silero.VAD.load", IF ok THEN "ok" ELSE "Exception")
  /\ UNCHANGED dial
  /\ UNCHANGED session_vars

\* vad = silero.VAD.load(), agent.py 498-503: a failure ends entrypoint
\* without ctx.shutdown()
silero_VAD_load(ok) ==
  /\ job.pc = "vad"
  /\ job' = IF ok THEN [job EXCEPT !.pc = "session", !.vad = TRUE]
            ELSE [job EXCEPT !.pc = "returned"]
  /\ Awaited("silero.VAD.load", IF ok THEN "ok" ELSE "Exception")
  /\ UNCHANGED dial
  /\ UNCHANGED session_vars

\* AgentSession[CallState](..., userdata=CallState(phone_number=
\* phone_number)), the session.start task and the call of
\* create_sip_participant_with_retry up to its first attempt (agent.py
\* 505-524); a plugin that cannot be built raises before the CallState is
\* made
AgentSession_create(ok, t) ==
  /\ job.pc = "session"
  /\ IF ok
     THEN /\ userdata' = NewCallState(job.phone_number, t)
          /\ job' = [job EXCEPT !.pc = "dial", !.sessions = @ + 1,
                                !.session_started = "pending"]
          /\ dial' = [DialIdle EXCEPT !.pc = "attempt"]
     ELSE /\ job' = Shutdown(job)
          /\ UNCHANGED <<userdata, dial>>
  /\ Awaited("AgentSession", IF ok THEN "ok" ELSE "Exception")
  /\ UNCHANGED <<stage, reply, speech, task, hup, hangup_calls,
                 room_deleted>>

\* the session_started task: session.start(agent=GreetingAgent(), ...)
\* makes GreetingAgent the active stage, whose on_enter hook is to run, or
\* fails, which the task keeps until it is awaited
session_start(ok) ==
  /\ job.session_started = "pending"
  /\ IF ok
     THEN /\ stage' = "Greeting"
          /\ task' = [name |-> "GreetingAgent.on_enter", pc |-> "reply"]
          /\ job' = [job EXCEPT !.session_started = "done"]
     ELSE /\ job' = [job EXCEPT !.session_started = "failed"]
          /\ UNCHANGED <<stage, task>>
  /\ Awaited("session.start", IF ok THEN "ok" ELSE "Exception")
  /\ UNCHANGED <<userdata, reply, speech, hup, hangup_calls, room_deleted,
                 dial>>

\* mutant: the loop catches every exception, not only TwirpError
create_sip_participant_catches_all(outcome) ==
  /\ job.pc = "dial"
  /\ dial.pc = "attempt"
  /\ IF outcome = "answered"
     THEN /\ dial' = [dial EXCEPT !.pc = "returned", !.tries = @ + 1]
          /\ job' = [job EXCEPT !.pc = "await_session",
                                !.participant_identity = job.phone_number]
     ELSE IF RetryLeft(dial.attempt, dial_max_retries)
     THEN /\ dial' = [dial EXCEPT !.pc = "sleep", !.tries = @ + 1,
                                  !.sleeps = Append(@, Pow2(dial.attempt))]
          /\ UNCHANGED job
     ELSE /\ dial' = [dial EXCEPT !.pc = "raised", !.tries = @ + 1]
          /\ job' = Shutdown(job)
  /\ Awaited("create_sip_participant", outcome)
  /\ UNCHANGED session_vars

\* one pass of the loop body of create_sip_participant_with_retry: the
\* participant answers (return participant_identity); a TwirpError with a
\* retry left (sleep 2 ** attempt); a TwirpError for the last time (raise,
\* caught at agent.py 525); any other exception, which the loop does not
\* catch (caught at agent.py 535).  Either handler shuts down.
create_sip_participant(outcome) ==
  /\ job.pc = "dial"
  /\ dial.pc = "attempt"
  /\ IF outcome = "answered"
     THEN /\ dial' = [dial EXCEPT !.pc = "returned", !.tries = @ + 1]
          /\ job' = [job EXCEPT !.pc = "await_session",
                                !.participant_identity = job.phone_number]
     ELSE IF outcome = "TwirpError"
             /\ RetryLeft(dial.attempt, dial_max_retries)
     THEN /\ dial' = [dial EXCEPT !.pc = "sleep", !.tries = @ + 1,
                                  !.sleeps = Append(@, Pow2(dial.attempt))]
          /\ UNCHANGED job
     ELSE /\ dial' = [dial EXCEPT !.pc = "raised", !.tries = @ + 1]
          /\ job' = Shutdown(job)
  /\ Awaited("create_sip_participant", outcome)
  /\ UNCHANGED session_vars

\* the sleep ends and the for loop takes the next attempt, or ends when
\* the range is exhausted and the function returns None
create_sip_participant_sleep ==
  /\ job.pc = "dial"
  /\ dial.pc = "sleep"
  /\ IF InRange(dial.attempt + 1, dial_max_retries)
     THEN /\ dial' = [dial EXCEPT !.pc = "attempt", !.attempt = @ + 1]
          /\ UNCHANGED job
     ELSE /\ dial' = [dial EXCEPT !.pc = "returned"]
          /\ job' = [job EXCEPT !.pc = "await_session"]
  /\ Awaited("asyncio.sleep", "ok")
  /\ UNCHANGED session_vars

\* mutant: the session_started task is not awaited
await_session_started_skipped ==
  /\ job.pc = "await_session"
  /\ job' = [job EXCEPT !.pc = "wait_for_participant"]
  /\ Awaited("session_started", "ok")
  /\ UNCHANGED dial
  /\ UNCHANGED session_vars

\* await session_started, agent.py 529: the task has ended, with the
\* session started or with its exception
await_session_started ==
  /\ job.pc = "await_session"
  /\ job.session_started \in {"done", "failed"}
  /\ job' = IF job.session_started = "done"
            THEN [job EXCEPT !.pc = "wait_for_participant"]
            ELSE Shutdown(job)
  /\ Awaited("session_started",
             IF job.session_started = "done" THEN "ok" ELSE "Exception")
  /\ UNCHANGED dial
  /\ UNCHANGED session_vars

\* await ctx.wait_for_participant(identity=participant_identity) and the
\* rest of entrypoint, which does not suspend again: the "Call completed"
\* record is logged and entrypoint ends (agent.py 530-533)
wait_for_participant(ok, now) ==
  /\ job.pc = "wait_for_participant"
  /\ IF ok
     THEN /\ job' = [job EXCEPT !.pc = "completed",
                                !.metrics = Append(@, Metrics(userdata, now))]
          /\ dial' = DialIdle
     ELSE /\ job' = Shutdown(job)
          /\ UNCHANGED dial
  /\ Awaited("wait_for_participant", IF ok THEN "ok" ELSE "Exception")
  /\ UNCHANGED session_vars

Dial ==
  \/ \E outcome \in {"answered", "TwirpError", "Exception"} : create_sip_participant(outcome)
  \/ create_sip_participant_sleep

Orchestrator ==
  \/ entrypoint_metadata
  \/ \E ok \in BOOLEAN : ctx_connect(ok)
  \/ \E ok \in BOOLEAN : silero_VAD_load(ok)
  \/ \E ok \in BOOLEAN, t \in StartInputs : AgentSession_create(ok, t)
  \/ \E ok \in BOOLEAN : session_start(ok)
  \/ Dial
  \/ await_session_started
  \/ \E ok \in BOOLEAN, now \in AnswerInputs : wait_for_participant(ok, now)

(***************************************************************************)
(* The call: every tool the active stage exposes may be invoked with any   *)
(* arguments, one tool at a time (a tool is not called while a hook or a   *)
(* tool is suspended); hooks and the hang-up loop take their steps.  The   *)
(* calls of the speech backend (generate_reply, wait_for_playout) return.  *)
(***************************************************************************)
\* the clock readings a call that started at time t0 may see, as local time
\* for strftime and as epoch seconds for time.time()
Readings(t0) ==
  { r \in ClockInputs \X ClockInputs \X ZoneInputs :
      t0 <= r[1] /\ r[1] <= r[2] }

GreetingTools ==
  \/ detected_answering_machine
  \/ \E n \in NameInputs : customer_confirmed_identity(n)
  \/ proceed_to_payment_inquiry
  \/ \E t \in PreferredTimeInputs : customer_requests_callback(t)
  \/ greeting_tool_hangup
  \/ GreetingAgent_end_call

PaymentInquiryTools ==
  \/ \E a \in AmountInputs, d \in DueDateInputs, b \in BalanceInputs :
        customer_wants_to_pay(a, d, b)
  \/ \E q \in QuestionInputs : customer_has_question(q)
  \/ \E r \in ReasonInputs \cup {<<>>} : customer_not_interested(r)
  \/ \E o \in ObjectionInputs : customer_has_objection(o)
  \/ customer_needs_balance_info
  \/ PaymentInquiryAgent_end_call

QuestionHandlerTools ==
  \/ question_answered_proceed_to_payment
  \/ customer_has_more_questions
  \/ QuestionHandlerAgent_end_call

ObjectionHandlerTools ==
  \/ objection_resolved
  \/ \E x \in SolutionInputs : offer_alternative_solution(x)
  \/ ObjectionHandlerAgent_end_call

\* process_payment at some reading of the clock
process_payment_at_some_time(payment_method) ==
  /\ stage = "PaymentProcessing"
  /\ \E r \in Readings(userdata.call_start_time) :
     process_payment(payment_method, r[1] + r[3], r[2])

PaymentProcessingTools ==
  \/ \E l \in LastFourInputs, z \in ZipInputs : verify_customer_info(l, z)
  \/ \E m \in MethodInputs : process_payment_at_some_time(m)
  \/ \E r \in ReasonInputs : payment_failed(r)
  \/ \E a \in AmountInputs : customer_wants_different_amount(a)
  \/ PaymentProcessingAgent_end_call

Hooks ==
  \/ GreetingAgent_on_enter
  \/ GoodbyeAgent_on_enter
  \/ goodbye_wait_for_playout
  \/ goodbye_hangup

Hangup ==
  \/ \E ok \in BOOLEAN : hangup_attempt(ok)
  \/ hangup_sleep

Next ==
  \/ GreetingTools
  \/ PaymentInquiryTools
  \/ QuestionHandlerTools
  \/ ObjectionHandlerTools
  \/ PaymentProcessingTools
  \/ Hooks
  \/ Hangup

Spec == Init /\ [][Next]_vars

\* the event loop runs every started coroutine on: a hook and the hang-up
\* loop take their next step as long as they have one
FairSpec ==
  Spec /\ WF_vars(Hooks) /\ WF_vars(Hangup) /\ WF_vars(greeting_tool_hangup)

\* a long call, from the start of the session: every tool the active stage
\* exposes may be invoked, with one argument its handler accepts and, where
\* the handler checks it, one it rejects; process_payment is called at the
\* first reading of the clock
LongInit ==
  /\ stage = "Greeting"
  /\ \E p \in PhoneInputs, t \in StartInputs, now \in AnswerInputs :
        /\ userdata = NewCallState(p, t)
        /\ job = CompletedJob(p, userdata, now)
  /\ dial = DialIdle
  /\ objection_calls = 0
  /\ interaction_cap = MaxLongInteractions
  /\ last_failure = NoFailure
  /\ launcher = NoLauncher
  /\ reply = "none"
  /\ speech = "none"
  /\ task = [name |-> "GreetingAgent.on_enter", pc |-> "reply"]
  /\ hup = HupIdle
  /\ hangup_calls = [c \in HangupCallers |-> 0]
  /\ room_deleted = FALSE
  /\ event = [tool |-> "start", args |-> <<>>]
  /\ scenario = [on |-> TRUE, calls |-> <<>>]

LongNext ==
  \/ detected_answering_machine
  \/ \E n \in NameInputs : customer_confirmed_identity(n)
  \/ proceed_to_payment_inquiry
  \/ customer_requests_callback(<<>>)
  \/ greeting_tool_hangup
  \/ GreetingAgent_end_call
  \/ \E a \in {<<"$", "2", "0", "0">>, <<"a", "b", "c">>},
        d \in DueDateInputs, b \in BalanceInputs :
        customer_wants_to_pay(a, d, b)
  \/ \E q \in QuestionInputs : customer_has_question(q)
  \/ \E r \in ReasonInputs : customer_not_interested(r)
  \/ customer_has_objection(<<"no money">>)
  \/ customer_needs_balance_info
  \/ PaymentInquiryAgent_end_call
  \/ QuestionHandlerTools
  \/ objection_resolved
  \/ offer_alternative_solution(<<"payment_plan">>)
  \/ ObjectionHandlerAgent_end_call
  \/ \E l \in {<<"1", "2", "3", "4">>, <<"1", "2", "a", "4">>} :
        verify_customer_info(l, <<"9", "0", "2", "1", "0">>)
  \/ \E t \in StartInputs, z \in ZoneInputs :
        process_payment(<<"debit card">>, t + z, t)
  \/ \E r \in ReasonInputs : payment_failed(r)
  \/ \E a \in {<<"$", "2", "0", "0">>, <<"a", "b", "c">>} :
        customer_wants_different_amount(a)
  \/ PaymentProcessingAgent_end_call
  \/ Hooks
  \/ Hangup

LongSpec == LongInit /\ [][LongNext]_vars

\* a job is received: entrypoint is about to run on its metadata, and no
\* session exists
CallInit ==
  /\ stage = "none"
  /\ userdata = NoCallState
  /\ reply = "none"
  /\ speech = "none"
  /\ task = NoTask
  /\ hup = HupIdle
  /\ hangup_calls = [c \in HangupCallers |-> 0]
  /\ room_deleted = FALSE
  /\ \E metadata \in MetadataInputs : job = NewJob(metadata)
  /\ dial = DialIdle
  /\ event = [tool |-> "start", args |-> <<>>]
  /\ scenario = [on |-> TRUE, calls |-> <<>>]
  /\ objection_calls = 0
  /\ interaction_cap = MaxInteractions
  /\ last_failure = NoFailure
  /\ launcher = NoLauncher

CallNext ==
  \/ Orchestrator
  \/ Next

\* the whole call, from the job to the end of the conversation
CallSpec == CallInit /\ [][CallNext]_vars

\* the event loop runs entrypoint on: every attempt of the dial ends, with
\* an answer or an error, every sleep ends, and an await of the ended
\* session_started task returns
FairCallSpec ==
  CallSpec /\ WF_vars(Dial) /\ WF_vars(await_session_started)

(***************************************************************************)
(* The validators as functions of their argument: the argument is drawn    *)
(* from a set of strings and the function is applied to it once.  No call  *)
(* is in progress.                                                         *)
(***************************************************************************)
agent_vars ==
  <<stage, userdata, reply, speech, task, hup, hangup_calls, room_deleted,
    job, dial, scenario, objection_calls, interaction_cap, last_failure>>

\* the agent has received no job and has no session
NoAgent ==
  /\ stage = "none"
  /\ userdata = NoCallState
  /\ reply = "none"
  /\ speech = "none"
  /\ task = NoTask
  /\ hup = HupIdle
  /\ hangup_calls = [c \in HangupCallers |-> 0]
  /\ room_deleted = FALSE
  /\ job = [pc |-> "none"]
  /\ dial = DialIdle
  /\ scenario = [on |-> TRUE, calls |-> <<>>]
  /\ objection_calls = 0
  /\ interaction_cap = MaxInteractions
  /\ last_failure = NoFailure

\* no job is received, no session exists and no launcher runs
NoCall == NoAgent /\ launcher = NoLauncher

\* the string s a function is about to be applied to, with what it was
\* made from
Drawn(s, from) ==
  [tool |-> "input", args |-> <<s>>, results |-> <<>>, drawn |-> from]

\* a string drawn as it is
Text == [kind |-> "text"]

\* `copy` of function `tool` has returned `value` for the input
Returned(tool, copy, value) ==
  /\ copy \notin DOMAIN event.results
  /\ event' = [event EXCEPT !.tool = tool,
                            !.results = @ @@ (copy :> value)]
  /\ UNCHANGED <<agent_vars, launcher>>

\* s repeated k times
RECURSIVE Repeat(_, _)
Repeat(s, k) == IF k = 0 THEN <<>> ELSE s \o Repeat(s, k - 1)

\* the most digits that follow the first digit of a phone number drawn
MaxPhoneDigits == 16

\* phone strings: what precedes the first digit, the first digit, up to
\* MaxPhoneDigits further digits, and what follows them
PhoneStrings ==
  {h \o f \o Repeat(<<"5">>, k) \o t :
     h \in {<<>>, <<"+">>, <<"+", "+">>, <<" ", "+">>},
     f \in {<<>>, <<"0">>, <<"1">>, <<"9">>, <<ArabicIndicThree>>},
     k \in 0..MaxPhoneDigits,
     t \in {<<>>, <<NL>>, <<NL, NL>>, <<" ">>, <<"a">>, <<NL, "5">>,
            <<ArabicIndicThree>>, <<ArabicIndicThree, NL>>}}

PhoneInit ==
  /\ NoCall
  /\ \E phone \in PhoneStrings : event = Drawn(phone, Text)

\* validate_phone_number(phone) of the agent
agent_validate_phone_number ==
  Returned("validate_phone_number", "agent",
           validate_phone_number(event.args[1]))

\* validate_phone_number(phone) of the launcher
launcher_validate_phone_number ==
  Returned("validate_phone_number", "launcher",
           call_validate_phone_number(event.args[1]))

PhoneNext ==
  \/ agent_validate_phone_number
  \/ launcher_validate_phone_number

PhoneSpec == PhoneInit /\ [][PhoneNext]_vars

\* str(n) with a ',' before every group of three digits, as in '50,000'
RECURSIVE Grouped(_)
Grouped(s) ==
  IF Len(s) <= 3 THEN s
  ELSE Grouped(SubSeq(s, 1, Len(s) - 3)) \o <<",">>
         \o SubSeq(s, Len(s) - 2, Len(s))

\* the amounts drawn: sign, whole dollars, the digits after the point (none:
\* no point is written), and how the amount is written
AmountsDrawn ==
  [kind   : {"number"},
   sign   : {<<>>, <<"+">>, <<"-">>},
   whole  : {0, 1, 75, 49999, MaxPayment, MaxPayment + 1},
   cents  : {<<>>, <<"0">>, <<"0", "0">>, <<"0", "1">>, <<"5">>},
   dollar : BOOLEAN,
   commas : BOOLEAN,
   space  : {<<>>, <<" ">>, <<NL>>}]

\* the amount as the customer's words may spell it: '$1,234.50'
Written(a) ==
  a.space
    \o (IF a.dollar THEN <<"$">> ELSE <<>>)
    \o a.sign
    \o (IF a.commas THEN Grouped(StrOf(a.whole)) ELSE StrOf(a.whole))
    \o (IF a.cents = <<>> THEN <<>> ELSE <<".">> \o a.cents)
    \o a.space

\* the argument is an amount as it may be written, a string that is no
\* number also without '$' and ',', or one float() takes for a value that
\* is no finite number
AmountInit ==
  /\ NoCall
  /\ \/ \E a \in AmountsDrawn : event = Drawn(Written(a), a)
     \/ \E s \in {<<>>, <<"$">>, <<",">>, <<"$", ",">>, <<" ">>, <<".">>,
                  <<"+">>, <<"a", "b", "c">>, <<"1", ".", "2", ".", "3">>,
                  <<"5", " ", "5">>, <<"-", "-", "5">>, <<"+", " ", "5">>,
                  <<"5", "a">>, <<"$", "5", "%">>, <<"n", "a">>,
                  <<"n", "a", "n">>, <<"i", "n", "f">>,
                  <<"-", "i", "n", "f">>, <<"+", "n", "a", "n">>,
                  <<"$", "i", "n", "f", "i", "n", "i", "t", "y">>} :
          event = Drawn(s, Text)

\* validate_payment_amount(amount) with its try statement: float() raises
\* ValueError on what it cannot parse, and the except clause returns False
\* (agent.py 48-49); nothing else is raised on a str
try_validate_payment_amount(amount) ==
  [raised |-> "none",
   value  |-> IF ParseFloat(Remove(Remove(amount, "$"), ",")).ok
              THEN validate_payment_amount(amount)
              ELSE FALSE]

agent_validate_payment_amount ==
  Returned("validate_payment_amount", "agent",
           try_validate_payment_amount(event.args[1]))

AmountSpec == AmountInit /\ [][agent_validate_payment_amount]_vars

\* log texts: what stands before the number, a number of the shape of a
\* card number or an SSN or nearly so, and what stands after it
LogStrings ==
  LET card(sep) == Repeat(<<"4", "1", "1", "1">> \o sep, 3)
                     \o <<"4", "1", "1", "1">>
      ssn(sep)  == <<"1", "2", "3">> \o sep \o <<"4", "5">> \o sep
                     \o <<"6", "7", "8", "9">>
      before  == {<<>>, <<" ">>, <<"#">>, <<"a">>, <<"_">>, <<"1">>, <<"-">>,
                  <<"c", "a", "r", "d">>, <<"c", "a", "r", "d", " ">>}
      numbers == {Repeat(<<"4">>, 16), Repeat(<<"4">>, 15),
                  card(<<"-">>), card(<<" ">>), card(<<NL>>),
                  card(<<"-", "-">>),
                  <<"4", "1", "1", "1", "-">> \o Repeat(<<"1">>, 8)
                    \o <<" ", "1", "1", "1", "1">>,
                  ssn(<<"-">>), ssn(<<" ">>),
                  <<"1", "2", "3", "-", "4", "5", "-", "6", "7", "8">>,
                  <<"n", "a">>}
      after   == {<<>>, <<" ">>, <<".">>, <<"a">>, <<"_">>, <<"1">>,
                  <<"-", "1", "1", "1", "1">>,
                  Repeat(<<"-", "1", "1", "1", "1">>, 3),
                  <<" ">> \o ssn(<<"-">>)}
  IN  {b \o n \o a : b \in before, n \in numbers, a \in after}

LogInit ==
  /\ NoCall
  /\ \E data \in LogStrings : event = Drawn(data, Text)

agent_sanitize_log_data ==
  Returned("sanitize_log_data", "agent", sanitize_log_data(event.args[1]))

LogSpec == LogInit /\ [][agent_sanitize_log_data]_vars

(***************************************************************************)
(* The launcher: main of call.py (217-274) with the functions it calls.    *)
(* The agent is not part of it.                                            *)
(***************************************************************************)
\* REQUIRED_ENV_VARS, call.py 13-18
REQUIRED_ENV_VARS ==
  {"LIVEKIT_API_KEY", "LIVEKIT_API_SECRET", "LIVEKIT_URL",
   "SIP_OUTBOUND_TRUNK_ID"}

\* PHONE_NUMBER_TO_CALL, call.py 11
PHONE_NUMBER_TO_CALL ==
  <<"+", "9", "1", "9", "7", "8", "7", "2", "6", "4", "6", "4", "8">>

\* what os.getenv may return for a variable after load_dotenv: None, an
\* empty string, or a value (two for the URL, one for the others)
EnvInputs ==
  {env \in [REQUIRED_ENV_VARS -> {None, <<>>, <<"value">>, <<"wss://host">>}] :
     \A var \in REQUIRED_ENV_VARS :
       env[var] = <<"wss://host">> => var = "LIVEKIT_URL"}

\* a name that is not bound in main
Unbound == [kind |-> "unbound"]

\* calling an async def function makes a coroutine object; its body runs
\* only when the object is awaited
Coroutine(function) ==
  [kind |-> "coroutine", function |-> function, started |-> FALSE]

\* the attributes main and its functions use, of a coroutine object and of
\* a LiveKitAPI object
HasAttr(object, name) ==
  IF object.kind = "coroutine" THEN name \in {"send", "throw", "close"}
  ELSE IF object.kind = "LiveKitAPI"
  THEN name \in {"room", "agent_dispatch", "aclose"}
  ELSE FALSE

\* main is about to run with this environment
NewLauncher(env) ==
  [pc        |-> "validate_environment",
   env       |-> env,
   env_vars  |-> Unbound,
   lkapi     |-> Unbound,
   steps     |-> <<>>,
   dispatch  |-> Unbound,
   call_info |-> Unbound,
   raised    |-> "none",
   handled   |-> "none",
   escaped   |-> "none"]

LaunchInit ==
  /\ NoAgent
  /\ event = [tool |-> "start", args |-> <<>>]
  /\ \E env \in EnvInputs : launcher = NewLauncher(env)

\* a step of main leaves the agent alone
LauncherStep(l) ==
  /\ launcher' = l
  /\ UNCHANGED <<agent_vars, event>>

\* the step `name` of main has run, and raised `exception` if it is not
\* "none": control goes to the except clauses of main
Ran(name, exception, next) ==
  [launcher EXCEPT !.steps = Append(@, name),
                   !.raised = exception,
                   !.pc = IF exception = "none" THEN next ELSE "except"]

\* step 1, call.py 225: validate_environment (call.py 24-38) raises
\* ValueError when a variable is missing or empty
main_validate_environment ==
  /\ launcher.pc = "validate_environment"
  /\ LauncherStep(
       IF \E var \in REQUIRED_ENV_VARS : ~Truthy(launcher.env[var])
       THEN Ran("validate_environment", "ValueError", "except")
       ELSE [Ran("validate_environment", "none", "test_api_connection")
               EXCEPT !.env_vars = launcher.env])

\* step 2, call.py 230: lkapi = test_api_connection(env_vars), without
\* await: lkapi is the coroutine object and the body of
\* test_api_connection (its LiveKitAPI and its list_rooms) does not run
main_test_api_connection ==
  /\ launcher.pc = "test_api_connection"
  /\ LauncherStep(
       [Ran("test_api_connection", "none", "test_sip_configuration")
          EXCEPT !.lkapi = Coroutine("test_api_connection")])

\* step 3, call.py 234: await test_sip_configuration(env_vars), which
\* raises ValueError when PHONE_NUMBER_TO_CALL is not valid (call.py 62-72)
main_test_sip_configuration ==
  /\ launcher.pc = "test_sip_configuration"
  /\ LauncherStep(
       IF call_validate_phone_number(PHONE_NUMBER_TO_CALL)
       THEN Ran("test_sip_configuration", "none", "cleanup_old_rooms")
       ELSE Ran("test_sip_configuration", "ValueError", "except"))

\* step 4, call.py 238: await cleanup_old_rooms(lkapi), whose body is all
\* in try / except Exception (call.py 185-215): lkapi.room on an object
\* without that attribute raises AttributeError, which is caught there, as
\* is every failure of list_rooms; failures of delete_room are caught one
\* by one.  Nothing main holds is changed
main_cleanup_old_rooms ==
  /\ launcher.pc = "cleanup_old_rooms"
  /\ LauncherStep(Ran("cleanup_old_rooms", "none", "create_payment_call"))

\* step 5, call.py 242: await create_payment_call(lkapi, trunk_id) (call.py
\* 74-140): lkapi.agent_dispatch on an object without that attribute raises
\* AttributeError, which except api.TwirpError does not catch; otherwise
\* create_dispatch returns the dispatch or raises TwirpError, which is
\* raised again.  After a dispatch main prints, may monitor the room
\* (which changes nothing it holds) and ends (call.py 244-257)
main_create_payment_call(timestamp, outcome) ==
  /\ launcher.pc = "create_payment_call"
  /\ LET raises == IF ~HasAttr(launcher.lkapi, "agent_dispatch")
                   THEN "AttributeError"
                   ELSE IF outcome = "TwirpError" THEN "TwirpError"
                   ELSE "none"
         invoked == [Ran("create_payment_call", raises, "finally")
                       EXCEPT !.dispatch = [lkapi     |-> launcher.lkapi,
                                            timestamp |-> timestamp]]
     IN  LauncherStep(
           IF raises = "none"
           THEN [invoked EXCEPT !.call_info =
                                  [phone_number |-> PHONE_NUMBER_TO_CALL,
                                   created_at   |-> timestamp]]
           ELSE invoked)

\* the except clauses of main, call.py 259-269
main_except ==
  /\ launcher.pc = "except"
  /\ LauncherStep(
       [launcher EXCEPT
          !.pc = "finally",
          !.handled = IF launcher.raised = "ValueError"
                      THEN "Configuration Error"
                      ELSE IF launcher.raised = "TwirpError"
                      THEN "LiveKit API Error"
                      ELSE "Unexpected error"])

\* the finally clause of main, call.py 270-273: when lkapi is bound,
\* await lkapi.aclose(), which on an object without aclose raises
\* AttributeError out of main
main_finally ==
  /\ launcher.pc = "finally"
  /\ LauncherStep(
       IF launcher.lkapi = Unbound
       THEN [launcher EXCEPT !.pc = "done"]
       ELSE IF HasAttr(launcher.lkapi, "aclose")
       THEN [launcher EXCEPT !.pc = "done", !.lkapi.closed = TRUE]
       ELSE [launcher EXCEPT !.pc = "done", !.escaped = "AttributeError"])

LaunchNext ==
  \/ main_validate_environment
  \/ main_test_api_connection
  \/ main_test_sip_configuration
  \/ main_cleanup_old_rooms
  \/ \E timestamp \in ClockInputs, outcome \in {"ok", "TwirpError"} :
       main_create_payment_call(timestamp, outcome)
  \/ main_except
  \/ main_finally

LaunchSpec == LaunchInit /\ [][LaunchNext]_vars

\* the types of the state
TypeOK ==
  /\ stage \in Stages
  /\ userdata.interaction_count \in 0..MaxInteractions
  /\ userdata.is_interested \in BOOLEAN
  /\ userdata.payment_confirmed \in BOOLEAN
  /\ Len(userdata.objections) <= MaxObjections
  /\ speech \in {"none", "playing"}
  /\ hup.pc \in {"idle", "attempt", "sleep"}
  /\ hup.attempt \in 0..(max_retries - 1)
  /\ room_deleted \in BOOLEAN
  /\ scenario.on \in BOOLEAN

(***************************************************************************)
(* Properties                                                              *)
(***************************************************************************)
\* the step just taken is a call of a handler with an invalid argument: an
\* amount that fails validate_payment_amount, card digits that are not
\* exactly four digits, a ZIP code that is not exactly five digits
InvalidCall(e) ==
  \/ /\ e.tool \in {"customer_wants_to_pay",
                    "customer_wants_different_amount"}
     /\ ~validate_payment_amount(e.args[1])
  \/ /\ e.tool = "verify_customer_info"
     /\ ~ExactDigits(e.args[1], 4) \/ ~ExactDigits(e.args[2], 5)

\* C1: a call of customer_wants_to_pay, customer_wants_different_amount or
\* verify_customer_info with an invalid argument changes no field of
\* CallState and leaves the active stage as it is.
C1_InvalidArgumentsChangeNothing ==
  [][InvalidCall(event') => userdata' = userdata /\ stage' = stage]_vars

\* C2: whenever payment_confirmed is true, confirmation_number and
\* payment_amount are set.
C2_ConfirmedHasNumberAndAmount ==
  userdata.payment_confirmed =>
    Truthy(userdata.confirmation_number) /\ Truthy(userdata.payment_amount)

C2_Witness ==
  /\ userdata.payment_confirmed
  /\ stage = "Goodbye"
  /\ event.tool = "process_payment"

\* C3: process_payment confirms a payment only when last_four_digits and
\* billing_zip are both set and are exactly four and exactly five digits;
\* when either is missing it changes neither CallState nor the stage.
C3_PaymentOnlyAfterVerification ==
  [][event'.tool = "process_payment" =>
       /\ userdata'.payment_confirmed \/ stage' # stage =>
            /\ userdata.last_four_digits # None
            /\ userdata.billing_zip # None
            /\ ExactDigits(userdata.last_four_digits, 4)
            /\ ExactDigits(userdata.billing_zip, 5)
       /\ userdata.last_four_digits = None \/ userdata.billing_zip = None =>
            userdata' = userdata /\ stage' = stage]_vars

\* C4: an active Goodbye stage has its on_enter hook running or finished;
\* the hook has issued no hang-up before its grace delay is over and
\* exactly one from then on; and every entry of Goodbye leads to the end of
\* the hook, with that one hang-up issued.
C4_GoodbyeAlwaysHangsUpOnce ==
  /\ [](stage = "Goodbye" => task.name = "GoodbyeAgent.on_enter")
  /\ [](task.name = "GoodbyeAgent.on_enter" =>
          hangup_calls["GoodbyeAgent.on_enter"] =
            IF task.pc \in {"hangup", "done"} THEN 1 ELSE 0)
  /\ [](stage # "Goodbye" => hangup_calls["GoodbyeAgent.on_enter"] = 0)
  /\ (stage = "Goodbye") ~>
        (task.pc = "done" /\ hangup_calls["GoodbyeAgent.on_enter"] = 1)

C4_Witness ==
  /\ stage = "Goodbye"
  /\ task = [name |-> "GoodbyeAgent.on_enter", pc |-> "done"]
  /\ hangup_calls["GoodbyeAgent.on_enter"] = 1
  /\ hup.tries >= 1

\* the edges of the stage graph out of the first four stages
StageGraph ==
  { <<"Greeting", "PaymentInquiry">>, <<"Greeting", "Goodbye">>,
    <<"PaymentInquiry", "PaymentProcessing">>,
    <<"PaymentInquiry", "QuestionHandler">>,
    <<"PaymentInquiry", "ObjectionHandler">>,
    <<"PaymentInquiry", "Goodbye">>,
    <<"QuestionHandler", "PaymentInquiry">>,
    <<"QuestionHandler", "Goodbye">>,
    <<"ObjectionHandler", "PaymentInquiry">>,
    <<"ObjectionHandler", "Goodbye">> }

\* C5: the call starts at Greeting, and every change of stage out of
\* Greeting, PaymentInquiry, QuestionHandler or ObjectionHandler follows an
\* edge of the stage graph.
C5_StageGraphRespected ==
  /\ stage = "Greeting"
  /\ [][stage' # stage /\ stage \in {"Greeting", "PaymentInquiry",
                                     "QuestionHandler", "ObjectionHandler"}
          => <<stage, stage'>> \in StageGraph]_vars

C5_Witness ==
  /\ stage = "PaymentInquiry"
  /\ event.tool = "objection_resolved"

\* C6 as stated: every change of stage out of PaymentProcessing leads to
\* Goodbye.
C6_OnlyGoodbyeAfterProcessing ==
  [][stage = "PaymentProcessing" /\ stage' # stage
       => stage' = "Goodbye"]_vars

\* C6 as amended: out of PaymentProcessing the stage changes to Goodbye by
\* a successful process_payment or by end_call, to ObjectionHandler by
\* payment_failed, and in no other way; each of the three changes the stage
\* so.
C6_GoodbyeOrObjectionAfterProcessing ==
  [][stage = "PaymentProcessing" =>
       /\ stage' # stage =>
            \/ stage' = "Goodbye"
                 /\ event'.tool \in {"process_payment", "end_call"}
            \/ stage' = "ObjectionHandler" /\ event'.tool = "payment_failed"
       /\ event'.tool = "end_call" => stage' = "Goodbye"
       /\ event'.tool = "payment_failed" => stage' = "ObjectionHandler"
       /\ event'.tool = "process_payment" /\ userdata'.payment_confirmed
            => stage' = "Goodbye"]_vars

C6_Witness ==
  /\ stage = "ObjectionHandler"
  /\ event.tool = "payment_failed"

\* C7: payment_failed activates ObjectionHandler and issues no hang-up: no
\* hook is started, hangup_call_with_retry is not called, the room stays;
\* and from ObjectionHandler objection_resolved leads back to
\* PaymentInquiry whenever a tool may run.
C7_PaymentFailedGoesToObjectionHandler ==
  /\ [][event'.tool = "payment_failed" =>
          /\ stage = "PaymentProcessing"
          /\ stage' = "ObjectionHandler"
          /\ task' = NoTask
          /\ hup' = hup /\ hangup_calls' = hangup_calls
          /\ room_deleted' = room_deleted]_vars
  /\ [][event'.tool = "objection_resolved" => stage' = "PaymentInquiry"]_vars
  /\ [](stage = "ObjectionHandler" /\ CanInteract
          => ENABLED objection_resolved)

C7_Witness ==
  /\ stage = "PaymentInquiry"
  /\ event.tool = "objection_resolved"
  /\ userdata.is_interested
  /\ hangup_calls = [c \in HangupCallers |-> 0]
  /\ ~room_deleted

\* C8: in each of the five stages before Goodbye end_call can be invoked
\* whatever CallState holds, and it activates Goodbye in that one step,
\* leaving CallState as it is.
C8_EndCallReachesGoodbye ==
  /\ [](Idle =>
          /\ stage = "Greeting" => ENABLED GreetingAgent_end_call
          /\ stage = "PaymentInquiry" => ENABLED PaymentInquiryAgent_end_call
          /\ stage = "QuestionHandler"
               => ENABLED QuestionHandlerAgent_end_call
          /\ stage = "ObjectionHandler"
               => ENABLED ObjectionHandlerAgent_end_call
          /\ stage = "PaymentProcessing"
               => ENABLED PaymentProcessingAgent_end_call)
  /\ [][event'.tool = "end_call" =>
          /\ stage # "Goodbye"
          /\ stage' = "Goodbye"
          /\ userdata' = userdata]_vars

C8_Witness ==
  /\ stage = "Goodbye"
  /\ event.tool = "end_call"
  /\ userdata.interaction_count = MaxInteractions

\* SC, eight digits, four digits
IsConfirmationNumber(s) ==
  /\ Len(s) = 14
  /\ s[1] = "S" /\ s[2] = "C"
  /\ \A i \in 3..14 : IsDigit(s[i])

\* C9: when the call has been exactly proceed_to_payment_inquiry,
\* customer_wants_to_pay with a valid amount, verify_customer_info with
\* four digits and five digits, process_payment, the stage is Goodbye,
\* last_four_digits and billing_zip are the supplied values, the payment is
\* confirmed and the confirmation number is SC, 8 digits, 4 digits.
C9_PaymentScenario ==
  scenario.on /\ Len(scenario.calls) = 4 =>
    /\ stage = "Goodbye"
    /\ userdata.last_four_digits = scenario.calls[3][1]
    /\ userdata.billing_zip = scenario.calls[3][2]
    /\ userdata.payment_confirmed
    /\ IsConfirmationNumber(userdata.confirmation_number)

C9_Witness ==
  /\ scenario.on /\ Len(scenario.calls) = 4
  /\ scenario.calls[2][1] = <<"$", "2", "0", "0">>
  /\ scenario.calls[3] = <<<<"1", "2", "3", "4">>,
                           <<"9", "0", "2", "1", "0">>>>
  /\ scenario.calls[4] = <<<<"debit card">>>>

\* C10: payment_confirmed never goes back to false, and it becomes true
\* only in a process_payment call that finds the customer verified and
\* moves from PaymentProcessing to Goodbye.
C10_ConfirmedOnceByProcessPayment ==
  [][/\ userdata.payment_confirmed => userdata'.payment_confirmed
     /\ ~userdata.payment_confirmed /\ userdata'.payment_confirmed =>
          /\ event'.tool = "process_payment"
          /\ ~NotVerified(userdata)
          /\ stage = "PaymentProcessing" /\ stage' = "Goodbye"]_vars

C10_Witness ==
  /\ userdata.payment_confirmed
  /\ task = [name |-> "GoodbyeAgent.on_enter", pc |-> "done"]

\* C11: objections is append-only: every step leaves the list as it is or
\* appends exactly one entry at its end; customer_has_objection appends its
\* argument and makes ObjectionHandler the active stage, objection_resolved
\* returns to PaymentInquiry and leaves the list as it is; so the length of
\* the list always equals the number of customer_has_objection calls so far.
C11_ObjectionsAppendOnly ==
  /\ [](Len(userdata.objections) = objection_calls)
  /\ [][/\ \/ userdata'.objections = userdata.objections
           \/ /\ Len(userdata'.objections) = Len(userdata.objections) + 1
              /\ SubSeq(userdata'.objections, 1, Len(userdata.objections))
                   = userdata.objections
        /\ event'.tool = "customer_has_objection" =>
             /\ userdata'.objections
                  = Append(userdata.objections, event'.args[1])
             /\ stage' = "ObjectionHandler"
        /\ event'.tool = "objection_resolved" =>
             /\ userdata'.objections = userdata.objections
             /\ stage' = "PaymentInquiry"]_vars

C11_Witness ==
  /\ userdata.objections = <<<<"no money">>, <<"too late">>>>
  /\ objection_calls = 2
  /\ stage = "ObjectionHandler"

\* the sleeps of a retry loop whose first k attempts failed: 2^0 .. 2^(k-1)
Backoff(k) == [i \in 1..k |-> 2 ^ (i - 1)]

\* the step ends hangup_call_with_retry with a deleted room
HangupSucceeds == hup.pc = "attempt" /\ hup'.pc = "idle" /\ ~hup'.failed

\* the step ends create_sip_participant_with_retry with an answered call
DialSucceeds == dial.pc = "attempt" /\ dial'.pc = "returned"

\* C12: in both retry loops (dial and teardown), when the action fails k
\* times and then succeeds, with k less than the maximum of attempts, it has
\* been invoked exactly k+1 times, the sleeps between the attempts were 2^0,
\* 2^1, ..., 2^(k-1) seconds in this order, and no attempt or sleep follows
\* the first success.
C12_RetryUntilFirstSuccess ==
  [][/\ HangupSucceeds =>
          /\ hup'.tries = hup.tries + 1
          /\ hup'.tries = Len(hup'.sleeps) + 1
          /\ Len(hup'.sleeps) < max_retries
          /\ hup'.sleeps = Backoff(hup.tries)
     /\ DialSucceeds =>
          /\ dial'.tries = dial.tries + 1
          /\ dial'.tries = Len(dial'.sleeps) + 1
          /\ Len(dial'.sleeps) < dial_max_retries
          /\ dial'.sleeps = Backoff(dial.tries)
     /\ hup.pc = "idle" /\ hup' # hup =>
          hangup_calls' # hangup_calls /\ hup'.tries = 0
     /\ dial.pc = "returned" => dial' \in {dial, DialIdle}]_vars

C12_Witness ==
  /\ dial.pc = "returned"
  /\ dial.tries = 3
  /\ dial.sleeps = <<1, 2>>
  /\ job.participant_identity = job.phone_number
  /\ job.pc = "wait_for_participant"

\* the step ends create_sip_participant_with_retry with an exception
DialFails == dial.pc = "attempt" /\ dial'.pc = "raised"

\* after the failed dial the orchestrator has shut the call context down
\* and is at its end, with no completion metrics logged
ShutDownAfterDial ==
  /\ job'.pc = "shutdown"
  /\ job'.shutdowns = job.shutdowns + 1
  /\ job'.participant_identity = None
  /\ job'.metrics = <<>>

\* the orchestrator stays at its end: it awaits nothing and logs nothing
StaysShutDown ==
  job.pc = "shutdown" =>
    /\ job'.pc = "shutdown"
    /\ job'.shutdowns = job.shutdowns
    /\ job'.metrics = job.metrics
    /\ dial' = dial

\* C13 as stated: when the dial always fails, it is invoked exactly
\* max_attempts times, with no sleep after the last attempt, and the
\* orchestrator then shuts the call context down and stops, without waiting
\* for the session start or the participant and without logging metrics.
C13_DialAlwaysFails ==
  /\ [](dial.pc = "sleep" => dial.tries < dial_max_retries)
  /\ [][/\ DialFails =>
             /\ dial'.tries = dial_max_retries
             /\ dial'.sleeps = Backoff(dial_max_retries - 1)
             /\ ShutDownAfterDial
        /\ StaysShutDown]_vars

\* C13, amended: the same when every attempt of the dial fails with a
\* TwirpError; a failure of another kind ends the dial at once, and the
\* orchestrator shuts down and stops all the same.
C13_DialAlwaysFailsWithTwirpError ==
  /\ [](dial.pc = "sleep" => dial.tries < dial_max_retries)
  /\ [][/\ DialFails =>
             /\ event'.args = <<"TwirpError">> =>
                  /\ dial'.tries = dial_max_retries
                  /\ dial'.sleeps = Backoff(dial_max_retries - 1)
             /\ event'.args # <<"TwirpError">> =>
                  dial'.sleeps = Backoff(dial.tries)
             /\ ShutDownAfterDial
        /\ StaysShutDown]_vars

C13_Witness ==
  /\ dial.pc = "raised"
  /\ dial.tries = dial_max_retries
  /\ dial.sleeps = <<1, 2>>
  /\ event = [tool |-> "create_sip_participant", args |-> <<"TwirpError">>]
  /\ job.pc = "shutdown"
  /\ job.session_started = "pending"

\* C14: the teardown never propagates a failure: when every attempt to
\* delete the room fails, hangup_call_with_retry makes exactly max_retries
\* attempts, logs the final failure and returns normally, so that the hook
\* or handler that awaited it completes.
C14_HangupNeverRaises ==
  /\ [](hup.pc = "sleep" => hup.tries < max_retries)
  /\ [](hup.failed =>
          /\ hup.pc = "idle"
          /\ hup.tries = max_retries
          /\ hup.sleeps = Backoff(max_retries - 1))
  /\ [][/\ hup.pc = "attempt" /\ hup.tries = max_retries - 1 =>
             hup'.pc = "idle" /\ (hup'.failed \/ room_deleted')
        /\ hup.pc # "idle" /\ hup'.pc = "idle" =>
             task' = IF task.name = "GoodbyeAgent.on_enter"
                     THEN [name |-> "GoodbyeAgent.on_enter", pc |-> "done"]
                     ELSE NoTask]_vars

C14_Witness ==
  /\ hup.failed
  /\ hup.tries = max_retries
  /\ ~room_deleted
  /\ task = [name |-> "GoodbyeAgent.on_enter", pc |-> "done"]

\* the metadata of the job is a JSON object with a phone number that is
\* present and valid
MetadataAccepted ==
  /\ job.metadata.json = "object"
  /\ job.metadata.phone_number \notin {None, <<>>}
  /\ validate_phone_number(job.metadata.phone_number)

\* a session has been created
SessionCreated ==
  job.sessions > 0 \/ userdata # NoCallState \/ job.session_started # "none"

\* a dial has been attempted
DialAttempted == dial # DialIdle \/ job.participant_identity # None

\* C15: the orchestrator creates a session and attempts a dial only after,
\* in this order, the metadata is parsed, the phone number is present, the
\* phone number is valid and the VAD is loaded: with malformed metadata or a
\* missing or invalid phone number the call is aborted before the media
\* connection, the session and the dial, and when the VAD fails to load no
\* session is created and no dial is attempted.
C15_ChecksBeforeSessionAndDial ==
  /\ SessionCreated \/ DialAttempted =>
       /\ MetadataAccepted
       /\ job.phone_number = job.metadata.phone_number
       /\ job.connected
       /\ job.vad
  /\ job.vad => job.connected
  /\ job.connected => MetadataAccepted
  /\ ~MetadataAccepted /\ job.pc # "start" =>
       /\ job.pc \in {"returned", "shutdown"}
       /\ ~job.connected /\ ~SessionCreated /\ ~DialAttempted
  /\ ~job.vad /\ job.pc \in {"returned", "shutdown"} =>
       ~SessionCreated /\ ~DialAttempted

C15_Witness ==
  /\ job.pc = "dial"
  /\ dial.tries = 1
  /\ job.sessions = 1
  /\ userdata.phone_number = job.metadata.phone_number
  /\ job.connected /\ job.vad

\* C16: the start of the session (at Greeting) and the outbound dial run as
\* two concurrent operations, and in every interleaving the orchestrator
\* goes on to wait for the participant only after both have completed
\* successfully.
C16_WaitsAfterSessionAndDial ==
  job.pc \in {"wait_for_participant", "completed"} =>
    /\ job.session_started = "done"
    /\ stage # "none"
    /\ job.participant_identity = job.phone_number
    /\ job.pc = "wait_for_participant" =>
         dial.pc = "returned" /\ dial.tries = Len(dial.sleeps) + 1

\* the session started between two attempts of the dial, and the
\* orchestrator is waiting for the participant
C16_Witness ==
  /\ job.pc = "wait_for_participant"
  /\ job.session_started = "done"
  /\ dial.tries = 2
  /\ task = NoTask
  /\ reply = "greet"

\* the step is a failure that entrypoint does not handle by itself
UnhandledFailure ==
  \/ event'.tool = "entrypoint" /\ event'.args = <<"AttributeError">>
  \/ /\ event'.tool \in {"ctx.connect", "AgentSession", "session_started",
                         "wait_for_participant"}
     /\ event'.args = <<"Exception">>
  \/ /\ event'.tool = "create_sip_participant"
     /\ dial'.pc = "raised"

\* C17: an unhandled failure at any step of the orchestrator (connecting,
\* creating or starting the session, dialing, waiting for the participant)
\* eventually results in a shutdown of the call context, and the
\* orchestrator does not resume the call afterwards.
C17_FailureLeadsToShutdown ==
  /\ [][/\ UnhandledFailure =>
             job'.pc = "shutdown" /\ job'.shutdowns = job.shutdowns + 1
        /\ StaysShutDown]_vars
  /\ (job.session_started = "failed") ~> (job.pc = "shutdown")
  /\ [](job.pc = "shutdown" => job.shutdowns = 1 /\ job.metrics = <<>>)

\* the session failed to start while the dial went on; the dial was
\* answered, and the await of session_started raised
C17_Witness ==
  /\ job.session_started = "failed"
  /\ job.pc = "shutdown"
  /\ job.shutdowns = 1
  /\ event = [tool |-> "session_started", args |-> <<"Exception">>]

\* the step issues a hang-up on behalf of this caller
HangupIssuedBy(caller) == hangup_calls'[caller] # hangup_calls[caller]

\* the message a Greeting tool generates before it hangs up
MessageOf(tool) ==
  IF tool = "detected_answering_machine" THEN "leave_message"
  ELSE "acknowledge_callback"

\* C18: GoodbyeAgent.on_enter issues the hang-up only after the goodbye
\* reply is generated, its playout has finished and the fixed grace delay
\* has elapsed; detected_answering_machine and customer_requests_callback
\* issue it only after their message is generated and its playout has
\* finished.
C18_HangupAfterSpeech ==
  [][/\ HangupIssuedBy("GoodbyeAgent.on_enter") =>
          /\ task = [name |-> "GoodbyeAgent.on_enter", pc |-> "sleep"]
          /\ reply = "goodbye" /\ reply' = reply
          /\ speech = "none" /\ speech' = "none"
     /\ task' = [name |-> "GoodbyeAgent.on_enter", pc |-> "sleep"]
          /\ task' # task =>
          /\ task = [name |-> "GoodbyeAgent.on_enter", pc |-> "playout"]
          /\ reply = "goodbye"
          /\ speech' = "none"
     /\ task' = [name |-> "GoodbyeAgent.on_enter", pc |-> "playout"]
          /\ task' # task =>
          reply' = "goodbye"
     /\ \A tool \in {"detected_answering_machine",
                     "customer_requests_callback"} :
          /\ HangupIssuedBy(tool) =>
               /\ task = [name |-> tool, pc |-> "playout"]
               /\ reply = MessageOf(tool) /\ reply' = reply
               /\ speech' = "none"
          /\ task' = [name |-> tool, pc |-> "playout"] /\ task' # task =>
               reply' = MessageOf(tool)
     /\ hup'.pc # "idle" /\ hup.pc = "idle" =>
          \E caller \in HangupCallers : HangupIssuedBy(caller)]_vars

C18_Witness ==
  /\ hangup_calls["GoodbyeAgent.on_enter"] = 1
  /\ task = [name |-> "GoodbyeAgent.on_enter", pc |-> "hangup"]
  /\ reply = "goodbye"
  /\ speech = "none"
  /\ hup.pc = "attempt" /\ hup.tries = 0

\* C19: call_start_time serves only to compute the duration of the call at
\* teardown: the duration and the completion metrics are computed when the
\* call is torn down, so that the metrics record never precedes the end of
\* the conversation and reports the final values of interaction_count and
\* payment_confirmed.
C19_MetricsAtTeardown ==
  job.metrics # <<>> =>
    /\ \E caller \in HangupCallers : hangup_calls[caller] > 0
    /\ job.metrics[1].interactions = userdata.interaction_count
    /\ job.metrics[1].payment = userdata.payment_confirmed

\* the optional fields of CallState
OptionalFields ==
  {"customer_name", "payment_amount", "payment_method", "last_four_digits",
   "billing_zip", "due_date", "current_balance", "confirmation_number"}

\* C20: the CallState is created once per call, with only phone_number
\* populated (every flag false, the counter 0, objections empty, every
\* optional field unset, call_start_time the time of creation), and no
\* handler, hook or step of the orchestrator changes phone_number
\* afterwards.
C20_PhoneNumberSetOnce ==
  [][/\ userdata = NoCallState /\ userdata' # NoCallState =>
          /\ event'.tool = "AgentSession"
          /\ job.sessions = 0 /\ job'.sessions = 1
          /\ userdata'.phone_number = job.metadata.phone_number
          /\ \A f \in OptionalFields : userdata'[f] = None
          /\ ~userdata'.is_interested
          /\ ~userdata'.has_overdue_balance
          /\ ~userdata'.payment_confirmed
          /\ userdata'.interaction_count = 0
          /\ userdata'.objections = <<>>
          /\ userdata'.call_start_time \in StartInputs
     /\ userdata # NoCallState =>
          /\ userdata' # NoCallState
          /\ userdata'.phone_number = userdata.phone_number
          /\ job'.sessions = job.sessions]_vars

C20_Witness ==
  /\ userdata # NoCallState
  /\ userdata.phone_number = job.metadata.phone_number
  /\ userdata.phone_number \in PhoneInputs
  /\ userdata.customer_name # None
  /\ userdata.is_interested
  /\ job.sessions = 1
  /\ task = [name |-> "GoodbyeAgent.on_enter", pc |-> "done"]

\* C24: in every reachable state payment_amount is set if and only if
\* is_interested is true; a payment_amount that is set passes
\* validate_payment_amount; and while PaymentProcessing is the active
\* stage, is_interested is true and payment_amount is set.
C24_AmountIffInterested ==
  /\ userdata.payment_amount # None <=> userdata.is_interested
  /\ userdata.payment_amount # None =>
       validate_payment_amount(userdata.payment_amount)
  /\ stage = "PaymentProcessing" =>
       userdata.is_interested /\ userdata.payment_amount # None

\* the amount was changed in PaymentProcessing after an invalid attempt
C24_Witness ==
  /\ stage = "PaymentProcessing"
  /\ event.tool = "customer_wants_different_amount"
  /\ event.args = <<userdata.payment_amount>>
  /\ userdata.payment_amount = <<"7", "5", ".", "5", "0">>
  /\ userdata.is_interested

\* C25: Goodbye is absorbing: it exposes no transition, so once Goodbye is
\* the active stage the active stage never changes again and no field of
\* CallState is modified for the rest of the call.
C25_GoodbyeIsAbsorbing ==
  [][stage = "Goodbye" => stage' = "Goodbye" /\ userdata' = userdata]_vars

\* the whole of on_enter and of the hang-up loop has run in Goodbye
C25_Witness ==
  /\ stage = "Goodbye"
  /\ task = [name |-> "GoodbyeAgent.on_enter", pc |-> "done"]
  /\ hup.tries = max_retries
  /\ userdata.interaction_count > 0

\* hang-ups issued so far in the call
HangupsIssued ==
  hangup_calls["GoodbyeAgent.on_enter"]
    + hangup_calls["detected_answering_machine"]
    + hangup_calls["customer_requests_callback"]

\* C26: hangup_call_with_retry is invoked at most once per call over all
\* paths: after detected_answering_machine or customer_requests_callback
\* has issued the teardown, with Greeting still the active stage, no
\* further transition runs and no second teardown is issued, for example
\* through a later end_call that reaches Goodbye.  Stated for the calls
\* whose room is still there, which are the calls that go on for certain:
\* its violation does not rest on tools being called in a deleted room.
C26_TeardownAtMostOnce == ~room_deleted => HangupsIssued <= 1

\* the step is a dial attempt that fails with this kind of failure
DialAttemptFails(kind) ==
  /\ event'.tool = "create_sip_participant"
  /\ event'.args = <<kind>>

\* C28: the dial loop retries only telephony-API (Twirp) failures: a dial
\* attempt that fails in any other way is not retried and no backoff sleep
\* happens; the failure leaves the loop at once, reaches the top-level
\* handler of the orchestrator, and the call context is shut down.
C28_OnlyTwirpErrorsRetried ==
  [][/\ DialAttemptFails("Exception") =>
          /\ dial'.pc = "raised"
          /\ dial'.tries = dial.tries + 1
          /\ dial'.sleeps = dial.sleeps
          /\ job'.pc = "shutdown"
          /\ job'.shutdowns = job.shutdowns + 1
          /\ job'.participant_identity = None
     /\ dial'.pc = "sleep" /\ dial.pc # "sleep" =>
          DialAttemptFails("TwirpError")
     /\ dial.pc = "raised" => dial' = dial /\ job'.pc = "shutdown"]_vars

\* the second attempt of the dial failed with another exception, after a
\* TwirpError and one sleep
C28_Witness ==
  /\ event = [tool |-> "create_sip_participant", args |-> <<"Exception">>]
  /\ dial.pc = "raised"
  /\ dial.tries = 2
  /\ dial.sleeps = <<1>>
  /\ job.pc = "shutdown"
  /\ job.shutdowns = 1

\* the transitions that count as an interaction when they succeed
CountedTools ==
  {"customer_confirmed_identity", "proceed_to_payment_inquiry",
   "customer_wants_to_pay", "customer_has_question",
   "customer_not_interested", "customer_has_objection",
   "customer_needs_balance_info", "question_answered_proceed_to_payment",
   "customer_has_more_questions", "objection_resolved",
   "offer_alternative_solution", "verify_customer_info", "process_payment",
   "payment_failed", "customer_wants_different_amount"}

\* the transitions that do not
UncountedTools ==
  {"end_call", "detected_answering_machine", "customer_requests_callback"}

\* the step is a call that its handler rejects with a corrective prompt:
\* the checks of agent.py 185, 350, 356, 369 and 392
Rejected ==
  \/ /\ event'.tool \in {"customer_wants_to_pay",
                         "customer_wants_different_amount"}
     /\ ~validate_payment_amount(event'.args[1])
  \/ /\ event'.tool = "verify_customer_info"
     /\ ~MatchDigits(event'.args[1], 4) \/ ~MatchDigits(event'.args[2], 5)
  \/ /\ event'.tool = "process_payment"
     /\ NotVerified(userdata)

\* C29: end_call of every stage and detected_answering_machine and
\* customer_requests_callback of Greeting leave every field of CallState
\* unchanged, interaction_count included; every other transition that
\* succeeds increases interaction_count by exactly 1, and
\* interaction_count never decreases.
C29_InteractionCount ==
  [][/\ userdata'.interaction_count >= userdata.interaction_count
     /\ event'.tool \in UncountedTools => userdata' = userdata
     /\ event'.tool \in CountedTools =>
          userdata'.interaction_count
            = userdata.interaction_count + (IF Rejected THEN 0 ELSE 1)
     /\ event'.tool \notin CountedTools =>
          userdata'.interaction_count = userdata.interaction_count]_vars

C29_Witness ==
  /\ event.tool = "end_call"
  /\ stage = "Goodbye"
  /\ reply = "call_back_when_ready"
  /\ userdata.interaction_count = 3
  /\ userdata.customer_name # None

\* C27: once verify_customer_info has stored last_four_digits and
\* billing_zip, every step leaves both set, and only verify_customer_info
\* writes them, so a process_payment called in PaymentProcessing with both
\* set, also after payment_failed and a renewed customer_wants_to_pay,
\* confirms the payment and hands off to GoodbyeAgent.
C27_VerificationKept ==
  [][/\ ~NotVerified(userdata) => ~NotVerified(userdata')
     /\ <<userdata'.last_four_digits, userdata'.billing_zip>>
           # <<userdata.last_four_digits, userdata.billing_zip>>
          => event'.tool = "verify_customer_info"
     /\ /\ ~NotVerified(userdata)
        /\ stage = "PaymentProcessing"
        /\ event'.tool = "process_payment"
        => userdata'.payment_confirmed /\ stage' = "Goodbye"]_vars

\* the payment is confirmed on the seventh interaction: proceed, agree to
\* pay, verify, payment failed with the details verified, objection
\* handled, agree to pay again, process
C27_Witness ==
  /\ userdata.payment_confirmed
  /\ event.tool = "process_payment"
  /\ last_failure.failed
  /\ ~NotVerified(last_failure)
  /\ last_failure.last_four_digits = userdata.last_four_digits
  /\ last_failure.billing_zip = userdata.billing_zip
  /\ userdata.interaction_count = 7

\* the strings the claim describes: '+', one digit 1-9, then 1 to 14
\* further digits, and nothing else
IsE164(phone) ==
  /\ Len(phone) \in 3..16
  /\ phone[1] = "+"
  /\ phone[2] \in {"1", "2", "3", "4", "5", "6", "7", "8", "9"}
  /\ \A i \in 3..Len(phone) : phone[i] \in Digit

\* C21: validate_phone_number returns true for exactly the strings that
\* are '+', one digit 1-9 and 1 to 14 further digits, false for every other
\* string, and the copy of the agent and the copy of the launcher return
\* the same on every input.
C21_PhoneNumberExact ==
  event.tool = "validate_phone_number" =>
    /\ \A copy \in DOMAIN event.results :
         event.results[copy] = IsE164(event.args[1])
    /\ \A c1, c2 \in DOMAIN event.results :
         event.results[c1] = event.results[c2]

\* the two copies return the same on every input
C21_CopiesAgree ==
  event.tool = "validate_phone_number" =>
    \A c1, c2 \in DOMAIN event.results :
      event.results[c1] = event.results[c2]

\* the digits after the point in hundredths: '.5' is 50, '.01' is 1
Hundredths(cents) ==
  IF cents = <<>> THEN 0
  ELSE IF Len(cents) = 1 THEN 10 * DigitVal(cents[1])
  ELSE 10 * DigitVal(cents[1]) + DigitVal(cents[2])

\* the amount drawn is more than 0 and at most 50000
InPaymentRange(a) ==
  LET h == 100 * a.whole + Hundredths(a.cents)
  IN  a.sign # <<"-">> /\ 0 < h /\ h <= 100 * 50000

\* C22: validate_payment_amount returns true for an amount written with
\* any '$' and ',' if and only if the amount is more than 0 and at most
\* 50000, and returns false, raising nothing, for a string that is no
\* number or no finite number once '$' and ',' are removed.
C22_AmountInRange ==
  event.tool = "validate_payment_amount" =>
    event.results["agent"] =
      [raised |-> "none",
       value  |-> event.drawn.kind = "number" /\ InPaymentRange(event.drawn)]

\* '$50,000.00' is accepted
C22_Witness ==
  /\ event.tool = "validate_payment_amount"
  /\ event.args[1] = <<"$", "5", "0", ",", "0", "0", "0", ".", "0", "0">>
  /\ event.results["agent"] = [raised |-> "none", value |-> TRUE]

\* n ASCII digits at position i of s
PlainDigitsAt(s, i, n) ==
  /\ i + n - 1 <= Len(s)
  /\ \A k \in i..(i + n - 1) : s[k] \in Digit

\* the position after an optional '-' or space at position i of s
AfterDashOrSpace(s, i) ==
  IF i <= Len(s) /\ s[i] \in {"-", " "} THEN i + 1 ELSE i

\* s holds 16 digits in groups of four, each group but the last followed
\* by at most one '-' or space
HasCardNumber(s) ==
  \E i \in 1..Len(s) :
    LET j1 == AfterDashOrSpace(s, i + 4)
        j2 == AfterDashOrSpace(s, j1 + 4)
        j3 == AfterDashOrSpace(s, j2 + 4)
    IN  /\ PlainDigitsAt(s, i, 4) /\ PlainDigitsAt(s, j1, 4)
        /\ PlainDigitsAt(s, j2, 4) /\ PlainDigitsAt(s, j3, 4)

\* s holds 3 digits, '-', 2 digits, '-', 4 digits
HasSsn(s) ==
  \E i \in 1..Len(s) :
    /\ PlainDigitsAt(s, i, 3)
    /\ i + 6 <= Len(s) /\ s[i + 3] = "-" /\ s[i + 6] = "-"
    /\ PlainDigitsAt(s, i + 4, 2)
    /\ PlainDigitsAt(s, i + 7, 4)

\* C23: for every input string, the output of sanitize_log_data holds no
\* unmasked sequence of 16 digits (in groups of four with optional '-' or
\* space separators) and no unmasked sequence of the shape of an SSN.
C23_NothingLeftUnmasked ==
  event.tool = "sanitize_log_data" =>
    /\ ~HasCardNumber(event.results["agent"])
    /\ ~HasSsn(event.results["agent"])

\* a number that stands alone, between characters that are no letter, digit
\* or '_', is masked
C23_MaskedWhenDelimited ==
  event.tool = "sanitize_log_data" =>
    \A i \in 1..Len(event.args[1]) :
      LET s == event.args[1]
          j1 == AfterDashOrSpace(s, i + 4)
          j2 == AfterDashOrSpace(s, j1 + 4)
          j3 == AfterDashOrSpace(s, j2 + 4)
      IN  /\ PlainDigitsAt(s, i, 4) /\ PlainDigitsAt(s, j1, 4)
          /\ PlainDigitsAt(s, j2, 4) /\ PlainDigitsAt(s, j3, 4)
          /\ Boundary(s, i) /\ Boundary(s, j3 + 4)
          => ~HasCardNumber(event.results["agent"])

\* the steps of main in their order
MainSteps ==
  <<"validate_environment", "test_api_connection", "test_sip_configuration",
    "cleanup_old_rooms", "create_payment_call">>

\* the launcher runs its steps in their order
C30_StepsInOrder ==
  launcher.pc # "none" =>
    /\ Len(launcher.steps) <= Len(MainSteps)
    /\ launcher.steps = SubSeq(MainSteps, 1, Len(launcher.steps))

\* C30: main runs environment validation, API connection test, SIP/phone
\* validation, cleanup and call dispatch in this order; create_payment_call
\* is invoked only after the API connection test has run, has completed
\* successfully and has returned a usable API client; and an API client
\* that was created is closed on every exit path.
C30_DispatchAfterConnectionTest ==
  launcher.pc # "none" =>
    /\ Len(launcher.steps) <= Len(MainSteps)
    /\ launcher.steps = SubSeq(MainSteps, 1, Len(launcher.steps))
    /\ launcher.dispatch # Unbound =>
         launcher.dispatch.lkapi.kind = "LiveKitAPI"
    /\ launcher.pc = "done" /\ launcher.lkapi.kind = "LiveKitAPI" =>
         launcher.lkapi.closed

====
